---- MODULE Spec2Model ----
(***************************************************************************)
(* Model of the connect-dots puzzle generator.                             *)
(*                                                                         *)
(*   Grid, Random   src/unnamed/part_003 (Grid.js)                         *)
(*   Generator      src/src/Generator.js                                   *)
(*                                                                         *)
(* A run is one call of Generator.generate() on a Grid of `size` with a    *)
(* Random built from a numeric seed.  Coordinates are 0-based <<r, c>> as  *)
(* in the source; sequences are 1-based, so JS index i is TLA+ index i+1.  *)
(* A value computed once and read several times in the source is passed    *)
(* on as a parameter of the operator that models the rest of the function. *)
(***************************************************************************)
EXTENDS Integers, Sequences, FiniteSets, TLC

(***************************************************************************)
(* Bounds of the model: the grid sizes and the numeric seeds of the runs.  *)
(***************************************************************************)
MaxSize == 5
\* sizes below this one are run with one seed and hardMode off only
FullFrom == 3
Seeds == {1, 7, 22, 39, 1318, 1264357156}

(***************************************************************************)
(* Program constants.                                                      *)
(***************************************************************************)
MaxGenerateAttempts == 500      \* generate: attempt < 500
MaxFailures == 50               \* fillGreedy: failures < 50
MaxAttempts == 1000             \* fillGreedy: maxAttempts
MaxIterations == 1000           \* expandPathsRandom: iterations < 1000
MaxDepth == 6                   \* fillSmallVoids: findLongestPathFrom(r, c, 6)
FirstPairsSpread == 3           \* addPair: paths.length < 3
CORE == 0                       \* point type 0 = core
EXTENSION == 1                  \* point type 1 = extension

(***************************************************************************)
(* 32-bit words as <<high 16 bits, low 16 bits>>: TLC's integers are       *)
(* 32-bit signed, so the unsigned 32-bit arithmetic of Random.next() is    *)
(* done on halves.                                                         *)
(***************************************************************************)
W16 == 2 ^ 16

RECURSIVE XorBits(_, _, _)
XorBits(a, b, n) ==
    IF n = 0 THEN 0
    ELSE (((a % 2) + (b % 2)) % 2) + (2 * XorBits(a \div 2, b \div 2, n - 1))

RECURSIVE OrBits(_, _, _)
OrBits(a, b, n) ==
    IF n = 0 THEN 0
    ELSE (IF (a % 2) = 1 \/ (b % 2) = 1 THEN 1 ELSE 0)
         + (2 * OrBits(a \div 2, b \div 2, n - 1))

\* x ^ y
Xor32(x, y) == <<XorBits(x[1], y[1], 16), XorBits(x[2], y[2], 16)>>

\* x | k for a constant k below 2^16
Or32(x, k) == <<x[1], OrBits(x[2], k, 16)>>

\* x >>> n for 0 < n < 16
Shr32(x, n) ==
    <<x[1] \div (2 ^ n),
      ((x[1] % (2 ^ n)) * (2 ^ (16 - n))) + (x[2] \div (2 ^ n))>>

\* (x + y) mod 2^32
Add32(x, y) ==
    <<(x[1] + y[1] + ((x[2] + y[2]) \div W16)) % W16, (x[2] + y[2]) % W16>>

\* (a * b) mod 2^16 for 16-bit a, b, without leaving 31 bits
MulLow16(a, b) ==
    (((a % 256) * b) + ((((a \div 256) * b) % 256) * 256)) % W16

\* (a * b) div 2^16 for 16-bit a, b
MulHigh16(a, b) ==
    (((a \div 256) * b) \div 256)
        + ((((((a \div 256) * b) % 256) * 256) + ((a % 256) * b)) \div W16)

\* Math.imul(x, y): the low 32 bits of the product
Imul(x, y) ==
    <<(MulHigh16(x[2], y[2]) + MulLow16(x[1], y[2]) + MulLow16(x[2], y[1])) % W16,
      MulLow16(x[2], y[2])>>

(***************************************************************************)
(* Random (Mulberry32).  `seed` is kept mod 2^32: next() only ever reads   *)
(* the low 32 bits of this.seed.                                           *)
(***************************************************************************)
\* 0x6D2B79F5
SeedStep == <<27947, 31221>>

\* constructor: a numeric seed (a positive integer below 2^31)
RandomOfSeed(n) == <<n \div W16, n % W16>>

\* a << 5 on 32 bits
Shl5(a) == <<(a[1] * 32 + a[2] \div 2048) % W16, (a[2] * 32) % W16>>

\* a - b on 32 bits
Sub32(a, b) ==
    IF a[2] >= b[2]
    THEN <<(a[1] - b[1] + W16) % W16, a[2] - b[2]>>
    ELSE <<(a[1] - b[1] - 1 + 2 * W16) % W16, a[2] - b[2] + W16>>

\* hashString from character i (1-based) on: hash = ((hash << 5) - hash) + char
RECURSIVE hashFrom(_, _, _)
hashFrom(hash, str, i) ==
    IF i > Len(str) THEN hash
    ELSE hashFrom(Add32(Sub32(Shl5(hash), hash), <<0, str[i]>>), str, i + 1)

\* hashString(str) for a string given as its char codes: the result >>> 0
hashString(str) == hashFrom(<<0, 0>>, str, 1)

\* next(): let t = this.seed += 0x6D2B79F5
RandomAdvance(seed) == Add32(seed, SeedStep)

\* next(): t = Math.imul(t ^ t >>> 15, t | 1)
Mix1(t) == Imul(Xor32(t, Shr32(t, 15)), Or32(t, 1))

\* next(): t ^= t + Math.imul(t ^ t >>> 7, t | 61)
Mix2(t) == Xor32(t, Add32(t, Imul(Xor32(t, Shr32(t, 7)), Or32(t, 61))))

\* next(): (t ^ t >>> 14) >>> 0
Mix3(t) == Xor32(t, Shr32(t, 14))

\* the 32-bit numerator of the value one call of next() returns
RandomNext(seed) == Mix3(Mix2(Mix1(RandomAdvance(seed))))

\* Math.floor((w / 2^32) * n) for a 32-bit numerator w and 0 < n < 2^15
FloorScaled(w, n) == ((w[1] * n) + ((w[2] * n) \div W16)) \div W16

\* range(min, max): the value drawn and the seed afterwards
RandomRange(seed, min, max) ==
    [value |-> FloorScaled(RandomNext(seed), max - min) + min,
     seed  |-> RandomAdvance(seed)]

\* an exchange that forgets the temporary: array[i] = array[j] only
Swap_Overwrite(array, i, j) ==
    [array EXCEPT ![i + 1] = array[j + 1]]

\* [array[i], array[j]] = [array[j], array[i]] (JS indices)
Swap(array, i, j) ==
    [array EXCEPT ![i + 1] = array[j + 1], ![j + 1] = array[i + 1]]

\* the loop of shuffle from JS index i downwards
RECURSIVE ShuffleFrom(_, _, _)
ShuffleFrom(seed, array, i) ==
    IF i < 1 THEN [array |-> array, seed |-> seed]
    ELSE ShuffleFrom(RandomAdvance(seed),
                     Swap(array, i, FloorScaled(RandomNext(seed), i + 1)),
                     i - 1)

\* shuffle(array): the array afterwards and the seed afterwards
RandomShuffle(seed, array) == ShuffleFrom(seed, array, Len(array) - 1)

(***************************************************************************)
(* State.                                                                  *)
(***************************************************************************)
VARIABLES
    size,        \* grid.size
    options,     \* the options the Generator was constructed with
    seed,        \* generator.random.seed (mod 2^32)
    cells,       \* grid.cells: [<<r, c>> -> label]
    paths,       \* grid.paths: sequence of path records
    pc,          \* where generate() stands (a phase name, "done", "failed"
                 \* or "threw")
    started,     \* FALSE exactly when the phase named by pc has not begun
    attempt,     \* generate: attempt
    failures,    \* fillGreedy: failures
    attempts,    \* fillGreedy: attempts
    changed,     \* expandPathsRandom: changed
    improved,    \* tightenPaths: improved
    iterations,  \* expandPathsRandom: iterations
    pos,         \* position in the running for-of loop, 0 outside of it
    resets,      \* number of Grid.reset() calls made by generate()
    call,        \* the last call a client made on a Grid or on Random sources
    seedArg,     \* the argument two Random sources were constructed with
    sources,     \* the seed fields of those two Random sources
    draws,       \* number of calls made on the two Random sources
    request,     \* server: the request being handled, or the last one handled
    response,    \* server: the response to that request
    constructed, \* server: Generators constructed for that request
    issued,      \* server: the last puzzle /api/getPuzzle has returned
    userPaths,   \* page: userPaths, [path id -> cells drawn]
    isDrawing,   \* page: isDrawing
    activePathId, \* page: activePathId, 0 for null
    lastCell,    \* page: lastCell
    undoStack,   \* page: undoStack
    redoStack,   \* page: redoStack
    prevUserPaths, \* page: prevUserPaths
    titleWon,    \* page: the header reads "... connected!"
    generating,  \* page: generateBtn.disabled
    levelCodeInput, \* page: levelCodeInput.value, a sequence of characters
    isImported   \* page: grid.isImported

\* the Grid, the Generator and the locals of generate()
genVars == <<size, options, seed, cells, paths, pc, started, attempt, failures,
             attempts, changed, improved, iterations, pos, resets>>

\* the clients of the library: direct callers, the server, the page
apiVars == <<call, seedArg, sources, draws>>

serverVars == <<request, response, constructed, issued>>

levelVars == <<levelCodeInput, isImported>>

pageVars == <<userPaths, isDrawing, activePathId, lastCell, undoStack,
              redoStack, prevUserPaths, titleWon, generating, levelVars>>

hostVars == <<apiVars, serverVars, pageVars>>

vars == <<genVars, hostVars>>

\* a constructor that drops its options
hardMode_Ignored == FALSE

\* constructor: this.hardMode = options.hardMode || false
hardMode == options.hardMode

(***************************************************************************)
(* Grid.                                                                   *)
(***************************************************************************)
Coords == (0 .. size - 1) \X (0 .. size - 1)

isValid(r, c) == r >= 0 /\ r < size /\ c >= 0 /\ c < size

isEmpty(cs, r, c) == isValid(r, c) /\ cs[<<r, c>>] = 0

\* a setCell that fills the addressed row: this.cells[r].fill(value)
setCell_WholeRow(cs, r, c, value) ==
    IF isValid(r, c)
    THEN [p \in DOMAIN cs |-> IF p[1] = r THEN value ELSE cs[p]]
    ELSE cs

setCell(cs, r, c, value) ==
    IF isValid(r, c) THEN [cs EXCEPT ![<<r, c>>] = value] ELSE cs

\* setCell for every point of a sequence, in order
RECURSIVE setCells(_, _, _)
setCells(cs, points, value) ==
    IF points = <<>> THEN cs
    ELSE setCells(setCell(cs, Head(points)[1], Head(points)[2], value),
                  Tail(points), value)

\* a reset that leaves the labels in place
resetCells_Keep(cs) == cs

\* a reset that clears path ids only
resetCells_KeepStones(cs) == [p \in DOMAIN cs |-> IF cs[p] < 0 THEN cs[p] ELSE 0]

\* reset(): every cell 0
resetCells(cs) == [p \in DOMAIN cs |-> 0]

(***************************************************************************)
(* Generator: helpers.                                                     *)
(***************************************************************************)
Abs(x) == IF x < 0 THEN -x ELSE x

\* const dirs = [[0, 1], [0, -1], [1, 0], [-1, 0]]
Dirs == << <<0, 1>>, <<0, -1>>, <<1, 0>>, <<-1, 0>> >>

\* the value standing for null / undefined
Null == <<>>

Range(seq) == {seq[k] : k \in 1 .. Len(seq)}

Reverse(seq) == [k \in 1 .. Len(seq) |-> seq[Len(seq) + 1 - k]]

\* array.splice(i, 1) (JS index i)
RemoveAt(seq, i) ==
    [k \in 1 .. Len(seq) - 1 |-> IF k < i + 1 THEN seq[k] ELSE seq[k + 1]]

\* new Array(n).fill(v)
Filled(n, v) == [k \in 1 .. n |-> v]

areNeighbors(r1, c1, r2, c2) == Abs(r1 - r2) + Abs(c1 - c2) = 1

\* the hue of hsl(hue, 85%, 60%) in tenths of a degree, then S and L
getDistinctColor(index) == <<((index - 1) * 1375) % 3600, 85, 60>>

getNeighbors(r, c) ==
    SelectSeq([k \in 1 .. 4 |-> <<r + Dirs[k][1], c + Dirs[k][2]>>],
              LAMBDA p : isValid(p[1], p[2]))

\* all coordinates in row-major order
AllCoords == [k \in 1 .. size * size |-> <<(k - 1) \div size, (k - 1) % size>>]

getAllEmpty(cs) == SelectSeq(AllCoords, LAMBDA p : isEmpty(cs, p[1], p[2]))

\* a search that walks through occupied cells
bfsTake_ThroughAny(cs, end, cur, st, n) ==
    IF /\ n \notin DOMAIN st.parents
       /\ isValid(n[1], n[2])
    THEN [q |-> Append(st.q, n),
          parents |-> (n :> cur) @@ st.parents]
    ELSE st

\* --- findShortestPath: breadth-first search --------------------------------
\* queue and parents after neighbour n of cur has been looked at
bfsTake(cs, end, cur, st, n) ==
    IF /\ n \notin DOMAIN st.parents
       /\ isValid(n[1], n[2])
       /\ (cs[n] = 0 \/ n = end)
    THEN [q |-> Append(st.q, n),
          parents |-> (n :> cur) @@ st.parents]
    ELSE st

\* the for loop over dirs for the dequeued cell cur, from direction k on
RECURSIVE bfsVisit(_, _, _, _, _)
bfsVisit(cs, end, cur, st, k) ==
    IF k > 4 THEN st
    ELSE bfsVisit(cs, end, cur,
                  bfsTake(cs, end, cur, st,
                          <<cur[1] + Dirs[k][1], cur[2] + Dirs[k][2]>>),
                  k + 1)

\* while (q.length > 0)
RECURSIVE bfsLoop(_, _, _)
bfsLoop(cs, end, st) ==
    IF st.q = <<>> THEN [found |-> FALSE, parents |-> st.parents]
    ELSE IF Head(st.q) = end THEN [found |-> TRUE, parents |-> st.parents]
    ELSE bfsLoop(cs, end,
                 bfsVisit(cs, end, Head(st.q),
                          [q |-> Tail(st.q), parents |-> st.parents], 1))

\* while (curr) { path.push(curr); curr = parents.get(key) }, reversed
RECURSIVE walkBack(_, _)
walkBack(parents, curr) ==
    IF curr = Null THEN <<>>
    ELSE Append(walkBack(parents, parents[curr]), curr)

\* if (!found) return null; else the walk back from end
bfsResult(res, end) ==
    IF res.found THEN walkBack(res.parents, end) ELSE Null

findShortestPath(cs, start, end) ==
    bfsResult(bfsLoop(cs, end, [q |-> <<start>>,
                                parents |-> (start :> Null)]),
              end)

\* --- measureStraightSegment -------------------------------------------------
RECURSIVE measureFromStart(_, _, _)
measureFromStart(points, tipDir, k) ==
    IF k > Len(points) - 1 THEN 0
    ELSE IF <<points[k][1] - points[k + 1][1],
              points[k][2] - points[k + 1][2]>> = tipDir
         THEN 1 + measureFromStart(points, tipDir, k + 1)
         ELSE 0

RECURSIVE measureFromEnd(_, _, _)
measureFromEnd(points, tipDir, k) ==
    IF k < 2 THEN 0
    ELSE IF <<points[k][1] - points[k - 1][1],
              points[k][2] - points[k - 1][2]>> = tipDir
         THEN 1 + measureFromEnd(points, tipDir, k - 1)
         ELSE 0

measureStraightSegment(points, isStart, tipDir) ==
    IF isStart THEN measureFromStart(points, tipDir, 1)
    ELSE measureFromEnd(points, tipDir, Len(points))

\* --- findLongestPathFrom: depth-first search --------------------------------
\* a walk that may touch its own body
dfsMayStep_Touching(cs, n, visited) ==
    /\ isEmpty(cs, n[1], n[2])
    /\ n \notin visited

\* dfs: may the walk step on neighbour n
dfsMayStep(cs, n, visited) ==
    /\ isEmpty(cs, n[1], n[2])
    /\ n \notin visited
    /\ Len(SelectSeq(getNeighbors(n[1], n[2]), LAMBDA t : t \in visited)) <= 1

RECURSIVE dfs(_, _, _, _, _, _)
RECURSIVE dfsNeighbors(_, _, _, _, _, _, _)
\* dfs after bestPath has been updated: the depth limit, then the neighbours
dfsInto(cs, maxDepth, curr, visited, path, bestPath) ==
    IF Len(path) >= maxDepth THEN bestPath
    ELSE dfsNeighbors(cs, maxDepth, getNeighbors(curr[1], curr[2]), 1,
                      visited, path, bestPath)

\* dfs: if (path.length > bestPath.length) bestPath = [...path], then the rest
dfs(cs, maxDepth, curr, visited, path, bestPath) ==
    IF Len(path) > Len(bestPath)
    THEN dfsInto(cs, maxDepth, curr, visited, path, path)
    ELSE dfsInto(cs, maxDepth, curr, visited, path, bestPath)

dfsNeighbors(cs, maxDepth, neighbors, k, visited, path, bestPath) ==
    IF k > Len(neighbors) THEN bestPath
    ELSE dfsNeighbors(cs, maxDepth, neighbors, k + 1, visited, path,
            IF dfsMayStep(cs, neighbors[k], visited)
            THEN dfs(cs, maxDepth, neighbors[k], visited \cup {neighbors[k]},
                     Append(path, neighbors[k]), bestPath)
            ELSE bestPath)

findLongestPathFrom(cs, r, c, maxDepth) ==
    dfs(cs, maxDepth, <<r, c>>, {<<r, c>>}, << <<r, c>> >>, <<>>)

(***************************************************************************)
(* Generator: operations on a grid g = [cells, paths] and the seed.        *)
(***************************************************************************)
\* the path record pushed by addPair (isFiller absent, read as false)
NewPath(pathId, points, filler) ==
    [id         |-> pathId,
     points     |-> points,
     pointTypes |-> Filled(Len(points), CORE),
     color      |-> getDistinctColor(pathId),
     isFiller   |-> filler]

\* addPair: the B candidates for start A
hardCandidates(list, start) ==
    SelectSeq(list, LAMBDA p : p[1] # start[1] /\ p[2] # start[2])

quadrant(x) == IF x < size \div 2 THEN 0 ELSE 1

spreadCandidates(list, start) ==
    SelectSeq(list, LAMBDA p : /\ quadrant(p[1]) = 1 - quadrant(start[1])
                               /\ quadrant(p[2]) = 1 - quadrant(start[2]))

distantCandidates(list, start) ==
    SelectSeq(list, LAMBDA p :
        Abs(p[1] - start[1]) + Abs(p[2] - start[2]) >= (size * 2) \div 3)

\* a hard mode that filters nothing
hardFiltered_Unfiltered(list, start) == list

\* if (this.hardMode) candidates = candidates.filter(...)
hardFiltered(list, start) ==
    IF hardMode THEN hardCandidates(list, start) ELSE list

\* a quadrant rule for the first two pairs only
spreadFiltered_FirstTwo(list, start, count) ==
    IF hardMode /\ count < FirstPairsSpread - 1
       /\ Len(spreadCandidates(list, start)) > 0
    THEN spreadCandidates(list, start)
    ELSE list

\* if (this.hardMode && paths.length < 3 && spread.length > 0) candidates = spread
spreadFiltered(list, start, count) ==
    IF hardMode /\ count < FirstPairsSpread
       /\ Len(spreadCandidates(list, start)) > 0
    THEN spreadCandidates(list, start)
    ELSE list

\* if (paths.length === 0) candidates = candidates.filter(distance)
distanceFiltered(list, start, count) ==
    IF count = 0 THEN distantCandidates(list, start) ELSE list

candidatesFor(empties, start, count) ==
    distanceFiltered(spreadFiltered(hardFiltered(empties, start), start, count),
                     start, count)

\* addPair returns false
addPairFails(cs, ps, sd) ==
    [ok |-> FALSE, cells |-> cs, paths |-> ps, seed |-> sd]

\* a commit of any route found, however short
addPairCommit_AnyRoute(cs, ps, sd, pathPoints) ==
    IF pathPoints # Null
    THEN [ok    |-> TRUE,
          cells |-> setCells(cs, pathPoints, Len(ps) + 1),
          paths |-> Append(ps, NewPath(Len(ps) + 1, pathPoints, FALSE)),
          seed  |-> sd]
    ELSE addPairFails(cs, ps, sd)

\* addPair from the route found on: commit it if it has 3 points or more
addPairCommit(cs, ps, sd, pathPoints) ==
    IF pathPoints # Null /\ Len(pathPoints) >= 3
    THEN [ok    |-> TRUE,
          cells |-> setCells(cs, pathPoints, Len(ps) + 1),
          paths |-> Append(ps, NewPath(Len(ps) + 1, pathPoints, FALSE)),
          seed  |-> sd]
    ELSE addPairFails(cs, ps, sd)

\* addPair from the draw b of B on
addPairRoute(cs, ps, start, list, b) ==
    addPairCommit(cs, ps, b.seed,
                  findShortestPath(cs, start, list[b.value + 1]))

\* addPair from the candidate list on
addPairEnd(cs, ps, sd, start, list) ==
    IF Len(list) = 0 THEN addPairFails(cs, ps, sd)
    ELSE addPairRoute(cs, ps, start, list, RandomRange(sd, 0, Len(list)))

\* addPair from the draw a of A on
addPairStart(cs, ps, empties, a) ==
    addPairEnd(cs, ps, a.seed, empties[a.value + 1],
               candidatesFor(RemoveAt(empties, a.value),
                             empties[a.value + 1], Len(ps)))

\* addPair from the list of empty cells on
addPairFrom(cs, ps, sd, empties) ==
    IF Len(empties) < 2 THEN addPairFails(cs, ps, sd)
    ELSE addPairStart(cs, ps, empties, RandomRange(sd, 0, Len(empties)))

\* addPair(): [ok, cells, paths, seed]
addPair(cs, ps, sd) == addPairFrom(cs, ps, sd, getAllEmpty(cs))

\* the endpoint of path that isStart names, the other one, and its neighbour
tipOf(path, isStart) ==
    IF isStart THEN path.points[1] ELSE path.points[Len(path.points)]

otherOf(path, isStart) == tipOf(path, ~isStart)

prevOf(path, isStart) ==
    IF isStart THEN path.points[2] ELSE path.points[Len(path.points) - 1]

\* the direction of the segment before the last one, seen from the tip
dirBeforePrev(points, isStart) ==
    IF isStart
    THEN <<points[2][1] - points[3][1], points[2][2] - points[3][2]>>
    ELSE <<points[Len(points) - 1][1] - points[Len(points) - 2][1],
           points[Len(points) - 1][2] - points[Len(points) - 2][2]>>

\* constraint 2: the new step would turn back after a segment shorter than 2
uTurn(path, isStart, tip, prev, n) ==
    /\ Len(path.points) > 1
    /\ measureStraightSegment(path.points, isStart,
                              <<tip[1] - prev[1], tip[2] - prev[2]>>) < 2
    /\ Len(path.points) >= 3
    /\ <<n[1] - tip[1], n[2] - tip[2]>> =
          <<-dirBeforePrev(path.points, isStart)[1],
            -dirBeforePrev(path.points, isStart)[2]>>

\* expandEndpointRandom: does neighbour n pass constraints 1, 1.5, 2 and 3
\* constraints without the self-touch check
canExtendTo_NoSelfTouch(cs, path, isStart, isExtension, n) ==
    /\ ~(/\ ~isExtension
         /\ areNeighbors(n[1], n[2], otherOf(path, isStart)[1],
                         otherOf(path, isStart)[2]))
    /\ ~(hardMode /\ (\/ n[1] = otherOf(path, isStart)[1]
                      \/ n[2] = otherOf(path, isStart)[2]))
    /\ ~uTurn(path, isStart, tipOf(path, isStart), prevOf(path, isStart), n)

\* constraints without the hard-mode check
canExtendTo_NoHardCheck(cs, path, isStart, isExtension, n) ==
    /\ ~(/\ ~isExtension
         /\ areNeighbors(n[1], n[2], otherOf(path, isStart)[1],
                         otherOf(path, isStart)[2]))
    /\ ~uTurn(path, isStart, tipOf(path, isStart), prevOf(path, isStart), n)
    /\ ~(Len(SelectSeq(getNeighbors(n[1], n[2]),
                       LAMBDA t : cs[t] = path.id)) > 1)

canExtendTo(cs, path, isStart, isExtension, n) ==
    /\ ~(/\ ~isExtension
         /\ areNeighbors(n[1], n[2], otherOf(path, isStart)[1],
                         otherOf(path, isStart)[2]))
    /\ ~(hardMode /\ (\/ n[1] = otherOf(path, isStart)[1]
                      \/ n[2] = otherOf(path, isStart)[2]))
    /\ ~uTurn(path, isStart, tipOf(path, isStart), prevOf(path, isStart), n)
    /\ ~(Len(SelectSeq(getNeighbors(n[1], n[2]),
                       LAMBDA t : cs[t] = path.id)) > 1)

\* an extension that records the new cell without a type for it
extendPath_Untyped(path, isStart, n, type) ==
    IF isStart
    THEN [path EXCEPT !.points = <<n>> \o path.points]
    ELSE [path EXCEPT !.points = Append(path.points, n)]

\* an extension that pushes at the end whichever endpoint grew
extendPath_AlwaysPush(path, isStart, n, type) ==
    [path EXCEPT !.points = Append(path.points, n),
                 !.pointTypes = Append(path.pointTypes, type)]

\* expandEndpointRandom: unshift at the start, push at the end
extendPath(path, isStart, n, type) ==
    IF isStart
    THEN [path EXCEPT !.points = <<n>> \o path.points,
                      !.pointTypes = <<type>> \o path.pointTypes]
    ELSE [path EXCEPT !.points = Append(path.points, n),
                      !.pointTypes = Append(path.pointTypes, type)]

\* a loop that gives up after the first shuffled neighbour
firstValid_FirstOnly(cs, path, isStart, isExtension, neighbors, k) ==
    IF k > Len(neighbors) THEN 0
    ELSE IF canExtendTo(cs, path, isStart, isExtension, neighbors[k]) THEN k
    ELSE 0

\* the for loop over the shuffled neighbours from position k on: the position
\* of the first one that passes the constraints, 0 if there is none
RECURSIVE firstValid(_, _, _, _, _, _)
firstValid(cs, path, isStart, isExtension, neighbors, k) ==
    IF k > Len(neighbors) THEN 0
    ELSE IF canExtendTo(cs, path, isStart, isExtension, neighbors[k]) THEN k
    ELSE firstValid(cs, path, isStart, isExtension, neighbors, k + 1)

\* an extension that tags every new point as core
extendAt_CoreTag(cs, path, isStart, isExtension, sh, k) ==
    IF k = 0
    THEN [ok |-> FALSE, cells |-> cs, path |-> path, seed |-> sh.seed]
    ELSE [ok    |-> TRUE,
          cells |-> setCell(cs, sh.array[k][1], sh.array[k][2], path.id),
          path  |-> extendPath(path, isStart, sh.array[k], CORE),
          seed  |-> sh.seed]

\* expandEndpointRandom: the outcome for the neighbour at position k (0: none)
extendAt(cs, path, isStart, isExtension, sh, k) ==
    IF k = 0
    THEN [ok |-> FALSE, cells |-> cs, path |-> path, seed |-> sh.seed]
    ELSE [ok    |-> TRUE,
          cells |-> setCell(cs, sh.array[k][1], sh.array[k][2], path.id),
          path  |-> extendPath(path, isStart, sh.array[k],
                               IF isExtension THEN EXTENSION ELSE CORE),
          seed  |-> sh.seed]

\* expandEndpointRandom from the shuffled neighbours sh on
extendShuffled(cs, path, isStart, isExtension, sh) ==
    extendAt(cs, path, isStart, isExtension, sh,
             firstValid(cs, path, isStart, isExtension, sh.array, 1))

\* expandEndpointRandom from the empty neighbours of the tip on
extendAmong(cs, path, isStart, isExtension, sd, neighbors) ==
    IF Len(neighbors) = 0
    THEN [ok |-> FALSE, cells |-> cs, path |-> path, seed |-> sd]
    ELSE extendShuffled(cs, path, isStart, isExtension,
                        RandomShuffle(sd, neighbors))

\* expandEndpointRandom(path, index, isExtension): [ok, cells, path, seed]
expandEndpointRandom(cs, path, isStart, isExtension, sd) ==
    extendAmong(cs, path, isStart, isExtension, sd,
                SelectSeq(getNeighbors(tipOf(path, isStart)[1],
                                       tipOf(path, isStart)[2]),
                          LAMBDA p : isEmpty(cs, p[1], p[2])))

\* a loop body that keeps the route it found the path on
tightenTo_Keep(cleared, path, newPoints) ==
    [improved |-> FALSE,
     cells    |-> setCells(cleared, path.points, path.id),
     path     |-> path]

\* tightenPaths, one path: the outcome for the route newPoints found on the
\* grid `cleared` of the path's own cells
\* a tightening that also takes a route of the same length
tightenTo_NotLonger(cleared, path, newPoints) ==
    IF newPoints # Null /\ Len(newPoints) <= Len(path.points)
    THEN [improved |-> newPoints # path.points,
          cells    |-> setCells(cleared, newPoints, path.id),
          path     |-> [path EXCEPT
                           !.points = newPoints,
                           !.pointTypes = Filled(Len(newPoints), CORE)]]
    ELSE [improved |-> FALSE,
          cells    |-> setCells(cleared, path.points, path.id),
          path     |-> path]

tightenTo(cleared, path, newPoints) ==
    IF newPoints # Null /\ Len(newPoints) < Len(path.points)
    THEN [improved |-> TRUE,
          cells    |-> setCells(cleared, newPoints, path.id),
          path     |-> [path EXCEPT
                           !.points = newPoints,
                           !.pointTypes = Filled(Len(newPoints), CORE)]]
    ELSE [improved |-> FALSE,
          cells    |-> setCells(cleared, path.points, path.id),
          path     |-> path]

\* tightenPaths, one path, from the cleared grid on
tightenOn(cleared, path) ==
    tightenTo(cleared, path,
              findShortestPath(cleared, path.points[1],
                               path.points[Len(path.points)]))

\* tightenPaths: the body of the for loop for one path: [improved, cells, path]
tightenPath(cs, path) == tightenOn(setCells(cs, path.points, 0), path)

\* a filler that takes the current path count as its id
addTargetedPath_StaleId(g, points) ==
    IF \A k \in 1 .. Len(points) : isEmpty(g.cells, points[k][1], points[k][2])
    THEN [cells |-> setCells(g.cells, points, Len(g.paths)),
          paths |-> Append(g.paths, NewPath(Len(g.paths), points, TRUE))]
    ELSE g

\* addTargetedPath(points) on g = [cells, paths]
addTargetedPath(g, points) ==
    IF \A k \in 1 .. Len(points) : isEmpty(g.cells, points[k][1], points[k][2])
    THEN [cells |-> setCells(g.cells, points, Len(g.paths) + 1),
          paths |-> Append(g.paths, NewPath(Len(g.paths) + 1, points, TRUE))]
    ELSE g

\* a first loop that takes walks of four cells and more only
addIfLong_FourUp(g, path) ==
    IF Len(path) >= 4 THEN addTargetedPath(g, path) ELSE g

\* if (path && path.length >= 3) this.addTargetedPath(path)
addIfLong(g, path) ==
    IF Len(path) >= 3 THEN addTargetedPath(g, path) ELSE g

\* fillSmallVoids, first double loop, from the k-th cell (row-major) on
RECURSIVE fillLongest(_, _)
fillLongest(g, k) ==
    IF k > size * size THEN g
    ELSE IF ~isEmpty(g.cells, (k - 1) \div size, (k - 1) % size)
    THEN fillLongest(g, k + 1)
    ELSE fillLongest(addIfLong(g, findLongestPathFrom(g.cells,
                                      (k - 1) \div size, (k - 1) % size,
                                      MaxDepth)),
                     k + 1)

\* the three cells of the L found in the 2x2 block at (r, c), or Null
lShapeAt(cs, r, c) ==
    IF isEmpty(cs, r, c) /\ isEmpty(cs, r, c + 1) /\ isEmpty(cs, r + 1, c)
    THEN << <<r, c + 1>>, <<r, c>>, <<r + 1, c>> >>
    ELSE IF isEmpty(cs, r, c) /\ isEmpty(cs, r, c + 1) /\ isEmpty(cs, r + 1, c + 1)
    THEN << <<r, c>>, <<r, c + 1>>, <<r + 1, c + 1>> >>
    ELSE IF isEmpty(cs, r, c) /\ isEmpty(cs, r + 1, c) /\ isEmpty(cs, r + 1, c + 1)
    THEN << <<r, c>>, <<r + 1, c>>, <<r + 1, c + 1>> >>
    ELSE IF isEmpty(cs, r, c + 1) /\ isEmpty(cs, r + 1, c) /\ isEmpty(cs, r + 1, c + 1)
    THEN << <<r, c + 1>>, <<r + 1, c + 1>>, <<r + 1, c>> >>
    ELSE Null

\* fillSmallVoids, second double loop, from the k-th 2x2 block on: the L, if
\* one is found in the block, becomes a path
RECURSIVE fillLShapes(_, _)
fillLShapes(g, k) ==
    IF k > (size - 1) * (size - 1) THEN g
    ELSE IF lShapeAt(g.cells, (k - 1) \div (size - 1), (k - 1) % (size - 1)) = Null
    THEN fillLShapes(g, k + 1)
    ELSE fillLShapes(addTargetedPath(g, lShapeAt(g.cells, (k - 1) \div (size - 1),
                                                 (k - 1) % (size - 1))),
                     k + 1)

fillSmallVoids(g) == fillLShapes(fillLongest(g, 1), 1)

\* --- mergeCollinearPaths ------------------------------------------------------
getDir(a, b) == <<b[1] - a[1], b[2] - a[2]>>

\* how paths p1, p2 merge: "append" (case 1), "reversed" (case 2) or "none"
mergeCase(p1, p2) ==
    LET n1 == Len(p1.points)
        n2 == Len(p2.points)
        p1End   == p1.points[n1]
        p2Start == p2.points[1]
        p2End   == p2.points[n2]
        d1      == getDir(p1.points[n1 - 1], p1End)
    IN  IF areNeighbors(p1End[1], p1End[2], p2Start[1], p2Start[2])
        THEN IF /\ d1 = getDir(p1End, p2Start)
                /\ getDir(p1End, p2Start) = getDir(p2Start, p2.points[2])
             THEN "append" ELSE "none"
        ELSE IF areNeighbors(p1End[1], p1End[2], p2End[1], p2End[2])
        THEN IF /\ d1 = getDir(p1End, p2End)
                /\ getDir(p1End, p2End) = getDir(p2.points[n2], p2.points[n2 - 1])
             THEN "reversed" ELSE "none"
        ELSE "none"

\* the pairs (i, j) of list positions at which the double loop would merge
mergeablePairs(ps) ==
    {ij \in (1 .. Len(ps)) \X (1 .. Len(ps)) :
        ij[1] # ij[2] /\ mergeCase(ps[ij[1]], ps[ij[2]]) # "none"}

\* the first of a set of pairs in the order of the loops (i outer, j inner)
firstOf(pairs) ==
    CHOOSE ij \in pairs :
        \A kl \in pairs : ij[1] < kl[1] \/ (ij[1] = kl[1] /\ ij[2] <= kl[2])

firstMergeable(ps) == firstOf(mergeablePairs(ps))

\* a merge that appends p2 as it is stored, whichever end was joined
absorbedPoints_AsStored(p1, p2) == p2.points

\* the points p2 contributes, in the order they are appended
absorbedPoints(p1, p2) ==
    IF mergeCase(p1, p2) = "reversed" THEN Reverse(p2.points) ELSE p2.points

absorbedTypes(p1, p2) ==
    IF mergeCase(p1, p2) = "reversed" THEN Reverse(p2.pointTypes)
    ELSE p2.pointTypes

\* p1 after absorbing p2
mergedPath(p1, p2) ==
    [p1 EXCEPT !.points     = p1.points \o absorbedPoints(p1, p2),
               !.pointTypes = p1.pointTypes \o absorbedTypes(p1, p2),
               !.isFiller   = TRUE]

\* a merge that forgets to relabel the cells of the absorbed path
mergeAt_NoRelabel(g, i, j) ==
    [cells |-> g.cells,
     paths |-> RemoveAt([g.paths EXCEPT ![i] = mergedPath(g.paths[i], g.paths[j])],
                        j - 1)]

\* one pass of the while loop that merges paths i and j: [cells, paths]
mergeAt(g, i, j) ==
    [cells |-> setCells(g.cells, absorbedPoints(g.paths[i], g.paths[j]),
                        g.paths[i].id),
     paths |-> RemoveAt([g.paths EXCEPT ![i] = mergedPath(g.paths[i], g.paths[j])],
                        j - 1)]

\* the merge of the pair the loops find first
mergePair(g, ij) == mergeAt(g, ij[1], ij[2])

mergeFirst(g) == mergePair(g, firstMergeable(g.paths))

\* --- shufflePathIds -----------------------------------------------------------
\* a reassignment that renumbers and re-marks but keeps the old colors
RECURSIVE reassignIds_NoRecolor(_, _)
reassignIds_NoRecolor(g, k) ==
    IF k > Len(g.paths) THEN g
    ELSE reassignIds_NoRecolor(
            [cells |-> setCells(g.cells, g.paths[k].points, k),
             paths |-> [g.paths EXCEPT ![k] = [@ EXCEPT !.id = k]]],
            k + 1)

\* paths.forEach((path, index) => ...) from list position k on
RECURSIVE reassignIds(_, _)
reassignIds(g, k) ==
    IF k > Len(g.paths) THEN g
    ELSE reassignIds(
            [cells |-> setCells(g.cells, g.paths[k].points, k),
             paths |-> [g.paths EXCEPT ![k] =
                          [@ EXCEPT !.id = k, !.color = getDistinctColor(k)]]],
            k + 1)

\* the grid g with the seed sd
withSeed(g, sd) == [cells |-> g.cells, paths |-> g.paths, seed |-> sd]

\* shufflePathIds from the shuffled list sh on
reassignShuffled(cs, sh) ==
    withSeed(reassignIds([cells |-> setCells(cs, AllCoords, 0),
                          paths |-> sh.array], 1),
             sh.seed)

\* shufflePathIds(): [cells, paths, seed]
shufflePathIds(g, sd) ==
    IF Len(g.paths) = 0 THEN withSeed(g, sd)
    ELSE reassignShuffled(g.cells, RandomShuffle(sd, g.paths))

\* --- validateGrid -------------------------------------------------------------
\* a validation without the adjacent-endpoints check
validPath_NoNeighborCheck(path) ==
    LET n     == Len(path.points)
        start == path.points[1]
        end   == path.points[n]
    IN  /\ ~(n < 3)
        /\ ~(hardMode /\ ~path.isFiller
             /\ (start[1] = end[1] \/ start[2] = end[2]))

\* validateGrid: the checks made for one path
validPath(path) ==
    LET n     == Len(path.points)
        start == path.points[1]
        end   == path.points[n]
    IN  /\ ~(n < 3)
        /\ ~(hardMode /\ ~path.isFiller
             /\ (start[1] = end[1] \/ start[2] = end[2]))
        /\ ~areNeighbors(start[1], start[2], end[1], end[2])

validateGrid(ps) == \A k \in 1 .. Len(ps) : validPath(ps[k])

(***************************************************************************)
(* generate(): the phases of one attempt, in the order they run.           *)
(***************************************************************************)
Phases == <<"fillGreedy", "expand1", "tighten1", "expand2", "fill1",
            "expand3", "tighten2", "expand4", "fill2", "merge", "shuffle",
            "validate">>

ExpandPhases  == {"expand1", "expand2", "expand3", "expand4"}
TightenPhases == {"tighten1", "tighten2"}
FillPhases    == {"fill1", "fill2"}

PhaseIndex(p) == CHOOSE k \in 1 .. Len(Phases) : Phases[k] = p

NextPhase(p) == Phases[PhaseIndex(p) + 1]

\* expandPathsRandom(false) is the first expansion only
isExtensionPhase(p) == p # "expand1"

\* the grid sizes of scripts/test_generator.js, which injects no Random
TestSizes == {5, 10}

\* [random |-> TRUE]: options.random is a Random built from `seed`;
\* [random |-> FALSE]: the Generator was constructed from a Grid alone
Inputs ==
    {[size |-> s, hardMode |-> FALSE, random |-> TRUE, seed |-> 1] :
        s \in 1 .. FullFrom - 1}
    \cup [size : FullFrom .. MaxSize, hardMode : BOOLEAN, random : {TRUE},
          seed : Seeds]
    \cup [size : TestSizes, hardMode : {FALSE}, random : {FALSE}, seed : {0}]

\* no call made yet
NoCall == [op |-> "none", r |-> 0, c |-> 0, value |-> 0, held |-> Null,
           result |-> FALSE]

\* no seed given: new Random()
Absent == [given |-> FALSE, value |-> 0]

\* no request received
NoRequest == [endpoint |-> "none", authorization |-> Null, size |-> 0,
              mode |-> "normal", seed |-> <<>>]

\* no response sent
NoResponse == [status |-> 0]

\* no puzzle returned yet
NoPuzzle == [size |-> 0, mode |-> "none", seed |-> <<>>, cells |-> <<>>,
             paths |-> <<>>]

\* the server has received nothing
ServerIdle ==
    /\ request = NoRequest
    /\ response = NoResponse
    /\ constructed = 0
    /\ issued = NoPuzzle

\* no direct call made on a Grid or a Random source
ApiIdle ==
    /\ call = NoCall
    /\ seedArg = Absent
    /\ sources = <<>>
    /\ draws = 0

\* userPaths = {}
NoPaths == [id \in {} |-> <<>>]

\* prevUserPaths = null
NoSnapshot == [set |-> FALSE, paths |-> NoPaths]

\* no level code written, no level imported
LevelIdle ==
    /\ levelCodeInput = <<>>
    /\ isImported = FALSE

\* no page open
PageIdle ==
    /\ userPaths = NoPaths
    /\ isDrawing = FALSE
    /\ activePathId = 0
    /\ lastCell = Null
    /\ undoStack = <<>>
    /\ redoStack = <<>>
    /\ prevUserPaths = NoSnapshot
    /\ titleWon = FALSE
    /\ generating = FALSE
    /\ LevelIdle

\* no client besides the caller of generate()
HostIdle ==
    /\ ApiIdle
    /\ ServerIdle
    /\ PageIdle

Init ==
    \E in \in Inputs :
        /\ size = in.size
        /\ options = [hardMode |-> in.hardMode, random |-> in.random]
        /\ seed = RandomOfSeed(in.seed)
        /\ cells = [p \in (0 .. in.size - 1) \X (0 .. in.size - 1) |-> 0]
        /\ paths = <<>>
        /\ pc = "generate"
        /\ started = FALSE
        /\ attempt = 0
        /\ failures = 0
        /\ attempts = 0
        /\ changed = TRUE
        /\ improved = TRUE
        /\ iterations = 0
        /\ pos = 0
        /\ resets = 0
        /\ HostIdle

\* leaving a phase: the locals of the loops are as a fresh call finds them
EnterPhase(p) ==
    /\ pc' = p
    /\ started' = FALSE
    /\ changed' = TRUE
    /\ improved' = TRUE
    /\ iterations' = 0
    /\ pos' = 0

\* the grid becomes g
SetGrid(g) == cells' = g.cells /\ paths' = g.paths

\* generate: the condition of the for loop
moreAttempts == attempt < MaxGenerateAttempts

\* for (attempt < 500) { this.grid.reset(); ...
AttemptStart ==
    /\ pc = "generate"
    /\ moreAttempts
    /\ cells' = resetCells(cells)
    /\ paths' = <<>>
    /\ resets' = resets + 1
    /\ failures' = 0
    /\ attempts' = 0
    /\ EnterPhase("fillGreedy")
    /\ UNCHANGED <<size, options, seed, attempt>>
    /\ UNCHANGED hostVars

\* the loop ran out: return false
GenerateFail ==
    /\ pc = "generate"
    /\ ~moreAttempts
    /\ pc' = "failed"
    /\ UNCHANGED <<size, options, seed, cells, paths, started, attempt,
                   failures, attempts, changed, improved, iterations, pos,
                   resets>>
    /\ UNCHANGED hostVars

\* a loop that gives up one failure early
greedyContinues_OneShort ==
    failures < MaxFailures - 1 /\ attempts < MaxAttempts

\* fillGreedy: the condition of the while loop
greedyContinues == failures < MaxFailures /\ attempts < MaxAttempts

\* if (this.addPair()) failures = 0; else failures++;
AddPairDone(r) ==
    /\ SetGrid(r)
    /\ seed' = r.seed
    /\ failures' = IF r.ok THEN 0 ELSE failures + 1

\* addPair faults: this.random is undefined when this.random.range is read,
\* which happens once two cells or more are empty
addPairThrows(cs) == ~options.random /\ Len(getAllEmpty(cs)) >= 2

\* fillGreedy: the pass of the while loop in which addPair throws a TypeError,
\* which nothing in fillGreedy or generate catches
AddPairThrows ==
    /\ pc = "fillGreedy"
    /\ greedyContinues
    /\ addPairThrows(cells)
    /\ attempts' = attempts + 1
    /\ pc' = "threw"
    /\ started' = TRUE
    /\ UNCHANGED <<size, options, seed, cells, paths, attempt, failures,
                   changed, improved, iterations, pos, resets>>
    /\ UNCHANGED hostVars

\* fillGreedy: one pass of the while loop
FillGreedyStep ==
    /\ pc = "fillGreedy"
    /\ greedyContinues
    /\ ~addPairThrows(cells)
    /\ AddPairDone(addPair(cells, paths, seed))
    /\ attempts' = attempts + 1
    /\ started' = TRUE
    /\ UNCHANGED <<size, options, pc, attempt, changed, improved, iterations,
                   pos, resets>>
    /\ UNCHANGED hostVars

\* a result that is content with a single path
fillGreedyResult_AtLeastOne(ps) == Len(ps) > 0

\* fillGreedy: return this.grid.paths.length > 1
fillGreedyResult(ps) == Len(ps) > 1

\* fillGreedy returns true: on to phase 2
FillGreedyTrue ==
    /\ pc = "fillGreedy"
    /\ ~greedyContinues
    /\ fillGreedyResult(paths)
    /\ EnterPhase("expand1")
    /\ UNCHANGED <<size, options, seed, cells, paths, attempt, failures,
                   attempts, resets>>
    /\ UNCHANGED hostVars

\* fillGreedy returns false: next attempt
FillGreedyFalse ==
    /\ pc = "fillGreedy"
    /\ ~greedyContinues
    /\ ~fillGreedyResult(paths)
    /\ attempt' = attempt + 1
    /\ EnterPhase("generate")
    /\ UNCHANGED <<size, options, seed, cells, paths, failures, attempts,
                   resets>>
    /\ UNCHANGED hostVars

\* this.random.shuffle(this.grid.paths)
PathsShuffled(sh) == paths' = sh.array /\ seed' = sh.seed

\* expandPathsRandom: the head of one pass of the while loop
ExpandRound ==
    /\ pc \in ExpandPhases
    /\ pos = 0
    /\ changed /\ iterations < MaxIterations
    /\ changed' = FALSE
    /\ iterations' = iterations + 1
    /\ PathsShuffled(RandomShuffle(seed, paths))
    /\ pos' = IF Len(paths) = 0 THEN 0 ELSE 1
    /\ started' = TRUE
    /\ UNCHANGED <<size, options, cells, pc, attempt, failures, attempts,
                   improved, resets>>
    /\ UNCHANGED hostVars

\* if (this.expandEndpointRandom(path, ...)) changed = true, for the path at
\* list position idx
EndpointDone(idx, r) ==
    /\ cells' = r.cells
    /\ paths' = [paths EXCEPT ![idx] = r.path]
    /\ seed' = r.seed
    /\ changed' = (changed \/ r.ok)

\* expandPathsRandom: one expandEndpointRandom call of the for loop; odd
\* positions are the start of a path, even positions its end
ExpandEndpoint ==
    /\ pc \in ExpandPhases
    /\ pos >= 1
    /\ EndpointDone((pos + 1) \div 2,
                    expandEndpointRandom(cells, paths[(pos + 1) \div 2],
                                         (pos % 2) = 1, isExtensionPhase(pc),
                                         seed))
    /\ pos' = IF pos = 2 * Len(paths) THEN 0 ELSE pos + 1
    /\ UNCHANGED <<size, options, pc, started, attempt, failures, attempts,
                   improved, iterations, resets>>
    /\ UNCHANGED hostVars

\* expandPathsRandom returns
ExpandReturn ==
    /\ pc \in ExpandPhases
    /\ pos = 0
    /\ ~(changed /\ iterations < MaxIterations)
    /\ EnterPhase(NextPhase(pc))
    /\ UNCHANGED <<size, options, seed, cells, paths, attempt, failures,
                   attempts, resets>>
    /\ UNCHANGED hostVars

\* tightenPaths: the head of one pass of the while loop
TightenRound ==
    /\ pc \in TightenPhases
    /\ pos = 0
    /\ improved
    /\ improved' = FALSE
    /\ pos' = IF Len(paths) = 0 THEN 0 ELSE 1
    /\ started' = TRUE
    /\ UNCHANGED <<size, options, seed, cells, paths, pc, attempt, failures,
                   attempts, changed, iterations, resets>>
    /\ UNCHANGED hostVars

\* the path at list position idx has been through the body of the for loop
TightenDone(idx, r) ==
    /\ cells' = r.cells
    /\ paths' = [paths EXCEPT ![idx] = r.path]
    /\ improved' = (improved \/ r.improved)

\* tightenPaths: the body of the for loop for the path at position pos
TightenPath ==
    /\ pc \in TightenPhases
    /\ pos >= 1
    /\ TightenDone(pos, tightenPath(cells, paths[pos]))
    /\ pos' = IF pos = Len(paths) THEN 0 ELSE pos + 1
    /\ UNCHANGED <<size, options, seed, pc, started, attempt, failures,
                   attempts, changed, iterations, resets>>
    /\ UNCHANGED hostVars

\* tightenPaths returns
TightenReturn ==
    /\ pc \in TightenPhases
    /\ pos = 0
    /\ ~improved
    /\ EnterPhase(NextPhase(pc))
    /\ UNCHANGED <<size, options, seed, cells, paths, attempt, failures,
                   attempts, resets>>
    /\ UNCHANGED hostVars

\* fillSmallVoids: the longest-walk double loop
FillLongest ==
    /\ pc \in FillPhases
    /\ ~started
    /\ SetGrid(fillLongest([cells |-> cells, paths |-> paths], 1))
    /\ started' = TRUE
    /\ UNCHANGED <<size, options, seed, pc, attempt, failures, attempts,
                   changed, improved, iterations, pos, resets>>
    /\ UNCHANGED hostVars

\* fillSmallVoids: the 2x2 L-shape double loop, then it returns
FillLShapes ==
    /\ pc \in FillPhases
    /\ started
    /\ SetGrid(fillLShapes([cells |-> cells, paths |-> paths], 1))
    /\ EnterPhase(NextPhase(pc))
    /\ UNCHANGED <<size, options, seed, attempt, failures, attempts, resets>>
    /\ UNCHANGED hostVars

\* mergeCollinearPaths: a pass of the while loop that finds a pair and merges
MergeStep ==
    /\ pc = "merge"
    /\ mergeablePairs(paths) # {}
    /\ SetGrid(mergeFirst([cells |-> cells, paths |-> paths]))
    /\ started' = TRUE
    /\ UNCHANGED <<size, options, seed, pc, attempt, failures, attempts,
                   changed, improved, iterations, pos, resets>>
    /\ UNCHANGED hostVars

\* mergeCollinearPaths: the pass that finds nothing; it returns
MergeReturn ==
    /\ pc = "merge"
    /\ mergeablePairs(paths) = {}
    /\ EnterPhase("shuffle")
    /\ UNCHANGED <<size, options, seed, cells, paths, attempt, failures,
                   attempts, resets>>
    /\ UNCHANGED hostVars

\* the ids have been shuffled
IdsShuffled(g) == SetGrid(g) /\ seed' = g.seed

\* shufflePathIds
ShuffleIds ==
    /\ pc = "shuffle"
    /\ IdsShuffled(shufflePathIds([cells |-> cells, paths |-> paths], seed))
    /\ EnterPhase("validate")
    /\ UNCHANGED <<size, options, attempt, failures, attempts, resets>>
    /\ UNCHANGED hostVars

\* validateGrid passes: return true
ValidateTrue ==
    /\ pc = "validate"
    /\ validateGrid(paths)
    /\ pc' = "done"
    /\ UNCHANGED <<size, options, seed, cells, paths, started, attempt,
                   failures, attempts, changed, improved, iterations, pos,
                   resets>>
    /\ UNCHANGED hostVars

\* validateGrid fails: next attempt
ValidateFalse ==
    /\ pc = "validate"
    /\ ~validateGrid(paths)
    /\ attempt' = attempt + 1
    /\ EnterPhase("generate")
    /\ UNCHANGED <<size, options, seed, cells, paths, failures, attempts,
                   resets>>
    /\ UNCHANGED hostVars

Next ==
    \/ AttemptStart
    \/ GenerateFail
    \/ AddPairThrows
    \/ FillGreedyStep
    \/ FillGreedyTrue
    \/ FillGreedyFalse
    \/ ExpandRound
    \/ ExpandEndpoint
    \/ ExpandReturn
    \/ TightenRound
    \/ TightenPath
    \/ TightenReturn
    \/ FillLongest
    \/ FillLShapes
    \/ MergeStep
    \/ MergeReturn
    \/ ShuffleIds
    \/ ValidateTrue
    \/ ValidateFalse

Spec == Init /\ [][Next]_vars

\* tightenPaths: the loops move on, from the head of a round to the first
\* path, from one path to the next or to the head of the next round, and from
\* the head of a round without improvement to the return
TightenAdvance ==
    /\ pc \in TightenPhases
    /\ \/ /\ pos = 0 /\ improved
          /\ pc' = pc
          /\ pos' = IF Len(paths) = 0 THEN 0 ELSE 1
       \/ /\ pos >= 1
          /\ pc' = pc
          /\ pos' = IF pos = Len(paths) THEN 0 ELSE pos + 1
       \/ /\ pos = 0 /\ ~improved
          /\ pc' = NextPhase(pc)
          /\ pos' = 0

\* tightenPaths is sequential code: while its loops can move on, they do
FairSpec == Spec /\ WF_<<pc, pos>>(TightenAdvance)

(***************************************************************************)
(* The Grid class under its clients' calls.                                *)
(***************************************************************************)
\* the grid sizes of the direct calls
GridSizes == {1, 2}

\* most paths pushed on such a grid
MaxHeldPaths == 1

\* the values clients write: a stone, empty, a path id
CellValues == {-1, 0, 1}

\* coordinates passed to the Grid, in and out of range
GridArgs == {-1, 0, 1, 2}

\* the locals of a Generator that has not run, on a fresh Grid
GenIdle ==
    /\ options = [hardMode |-> FALSE, random |-> TRUE]
    /\ seed = RandomOfSeed(1)
    /\ paths = <<>>
    /\ pc = "generate"
    /\ started = FALSE
    /\ attempt = 0
    /\ failures = 0
    /\ attempts = 0
    /\ changed = TRUE
    /\ improved = TRUE
    /\ iterations = 0
    /\ pos = 0
    /\ resets = 0

\* new Grid(size)
GridInit ==
    /\ size \in GridSizes
    /\ cells = [p \in (0 .. size - 1) \X (0 .. size - 1) |-> 0]
    /\ GenIdle
    /\ HostIdle

\* what a grid holds when reset() is called
heldBy(cs, ps) ==
    [stones |-> \E p \in DOMAIN cs : cs[p] = -1,
     ids    |-> \E p \in DOMAIN cs : cs[p] > 0,
     paths  |-> Len(ps)]

GridUnchanged ==
    UNCHANGED <<size, options, seed, pc, started, attempt, failures, attempts,
                changed, improved, iterations, pos, resets, seedArg, sources,
                draws, serverVars, pageVars>>

\* grid.isValid(r, c)
IsValidCall ==
    \E r \in GridArgs, c \in GridArgs :
        /\ call' = [op |-> "isValid", r |-> r, c |-> c, value |-> 0,
                    held |-> Null, result |-> isValid(r, c)]
        /\ UNCHANGED <<cells, paths>>
        /\ GridUnchanged

\* grid.isEmpty(r, c)
IsEmptyCall ==
    \E r \in GridArgs, c \in GridArgs :
        /\ call' = [op |-> "isEmpty", r |-> r, c |-> c, value |-> 0,
                    held |-> Null, result |-> isEmpty(cells, r, c)]
        /\ UNCHANGED <<cells, paths>>
        /\ GridUnchanged

\* grid.setCell(r, c, value)
SetCellCall ==
    \E r \in GridArgs, c \in GridArgs, value \in CellValues :
        /\ cells' = setCell(cells, r, c, value)
        /\ call' = [op |-> "setCell", r |-> r, c |-> c, value |-> value,
                    held |-> Null, result |-> FALSE]
        /\ UNCHANGED paths
        /\ GridUnchanged

\* grid.paths.push({...}), as addPair and addTargetedPath do
PushPathCall ==
    /\ Len(paths) < MaxHeldPaths
    /\ paths' = Append(paths, NewPath(Len(paths) + 1, <<<<0, 0>>>>, FALSE))
    /\ call' = [op |-> "push", r |-> 0, c |-> 0, value |-> 0,
                held |-> Null, result |-> FALSE]
    /\ UNCHANGED cells
    /\ GridUnchanged

\* the page after generate(): if (grid.cells[r][c] === 0) grid.cells[r][c] = -1
MarkStonesCall ==
    /\ cells' = [p \in DOMAIN cells |-> IF cells[p] = 0 THEN -1 ELSE cells[p]]
    /\ call' = [op |-> "markStones", r |-> 0, c |-> 0, value |-> -1,
                held |-> Null, result |-> FALSE]
    /\ UNCHANGED paths
    /\ GridUnchanged

\* grid.reset()
ResetCall ==
    /\ cells' = resetCells(cells)
    /\ paths' = <<>>
    /\ call' = [op |-> "reset", r |-> 0, c |-> 0, value |-> 0,
                held |-> heldBy(cells, paths), result |-> FALSE]
    /\ GridUnchanged

GridNext ==
    \/ IsValidCall
    \/ IsEmptyCall
    \/ SetCellCall
    \/ PushPathCall
    \/ MarkStonesCall
    \/ ResetCall

GridSpec == GridInit /\ [][GridNext]_vars

(***************************************************************************)
(* Two Random sources constructed from one argument.                       *)
(***************************************************************************)
\* most calls made on the pair of sources
MaxDraws == 3

\* the numeric seeds passed to the constructor
NumericSeeds == {0, 1, 7, 1318}

\* values Math.floor(Math.random() * 2147483647) may produce
FallbackSeeds == {3, 5}

SeedArgs == {Absent} \cup [given : {TRUE}, value : NumericSeeds]

\* constructor: this.seed = seed || Math.floor(Math.random() * 2147483647),
\* with `fallback` the value Math.random() gives this time
RandomConstruct(arg, fallback) ==
    IF arg.given /\ arg.value # 0
    THEN RandomOfSeed(arg.value)
    ELSE RandomOfSeed(fallback)

\* new Random(arg), twice
RandomInit ==
    /\ size = 1
    /\ cells = [p \in {<<0, 0>>} |-> 0]
    /\ GenIdle
    /\ ServerIdle
    /\ PageIdle
    /\ call = NoCall
    /\ draws = 0
    /\ \E arg \in SeedArgs, fa \in FallbackSeeds, fb \in FallbackSeeds :
           /\ seedArg = arg
           /\ sources = <<RandomConstruct(arg, fa), RandomConstruct(arg, fb)>>

\* the array the two sources shuffle
ShuffledArray == <<1, 2, 3, 4>>

\* the upper bounds passed to range(0, max)
RangeBounds == {2, 25}

RandomCalled(op, value, results, seeds) ==
    /\ draws' = draws + 1
    /\ call' = [op |-> op, r |-> 0, c |-> 0, value |-> value, held |-> Null,
                result |-> results]
    /\ sources' = seeds
    /\ UNCHANGED <<genVars, seedArg, serverVars, pageVars>>

\* next() on both sources
RandomNextCall ==
    /\ draws < MaxDraws
    /\ RandomCalled("next", 0,
                    <<RandomNext(sources[1]), RandomNext(sources[2])>>,
                    <<RandomAdvance(sources[1]), RandomAdvance(sources[2])>>)

\* range(0, max) on both sources
RandomRangeCall ==
    /\ draws < MaxDraws
    /\ \E max \in RangeBounds :
           RandomCalled("range", max,
                        <<RandomRange(sources[1], 0, max).value,
                          RandomRange(sources[2], 0, max).value>>,
                        <<RandomRange(sources[1], 0, max).seed,
                          RandomRange(sources[2], 0, max).seed>>)

\* shuffle(array) on both sources, each on its own copy of the array
RandomShuffleCall ==
    /\ draws < MaxDraws
    /\ RandomCalled("shuffle", 0,
                    <<RandomShuffle(sources[1], ShuffledArray).array,
                      RandomShuffle(sources[2], ShuffledArray).array>>,
                    <<RandomShuffle(sources[1], ShuffledArray).seed,
                      RandomShuffle(sources[2], ShuffledArray).seed>>)

RandomNextStep ==
    \/ RandomNextCall
    \/ RandomRangeCall
    \/ RandomShuffleCall

RandomSpec == RandomInit /\ [][RandomNextStep]_vars

(***************************************************************************)
(* The HTTP service.                                                       *)
(***************************************************************************)
\* process.env.DOTS_API_TOKEN
API_TOKEN == "secret"

\* size < 5 is rejected
MinServedSize == 5

\* size > 20 is rejected
MaxServedSize == 20

\* the Authorization header "<scheme> <token>"
Header(scheme, token) == [scheme |-> scheme, token |-> token]

\* no header, another scheme, a wrong token, the right token
AuthHeaders ==
    {Null, Header("Basic", API_TOKEN), Header("Bearer", "guess"),
     Header("Bearer", API_TOKEN)}

\* an auth middleware that checks the scheme only
authorized_AnyBearer(authHeader) ==
    /\ authHeader # Null
    /\ authHeader.scheme = "Bearer"

\* auth: the negation of !authHeader || !authHeader.startsWith('Bearer ')
\* || authHeader.split(' ')[1] !== API_TOKEN
authorized(authHeader) ==
    /\ authHeader # Null
    /\ authHeader.scheme = "Bearer"
    /\ authHeader.token = API_TOKEN

\* the seeds requests carry, as char codes: "1" and "A"
ServerSeeds == {<<49>>, <<65>>}

\* the sizes requests carry
RequestSizes == {MinServedSize - 1, MinServedSize, MaxServedSize + 1}

\* the modes requests carry
RequestModes == {"normal", "hard", "easy"}

\* the requests clients send; /api/validatePuzzle reads no mode
Requests ==
    [endpoint : {"getPuzzle"}, authorization : AuthHeaders,
     size : RequestSizes, mode : RequestModes, seed : ServerSeeds]
    \cup [endpoint : {"validatePuzzle"}, authorization : AuthHeaders,
          size : RequestSizes, mode : {"normal"}, seed : ServerSeeds]

\* isNaN(size) || size < 5 || size > 20
invalidSize(n) == n < MinServedSize \/ n > MaxServedSize

\* the validation of the endpoint's parameters fails
invalidRequest(req) ==
    \/ invalidSize(req.size)
    \/ req.endpoint = "getPuzzle" /\ req.mode \notin {"normal", "hard"}

\* the handler waits for nothing: a request may arrive
Listening == request = NoRequest \/ response # NoResponse

\* new Grid(size), new Random(seed), new Generator(grid, {hardMode, random})
GenConstruct(n, hard, str) ==
    /\ size' = n
    /\ options' = [hardMode |-> hard, random |-> TRUE]
    /\ seed' = hashString(str)
    /\ cells' = [p \in (0 .. n - 1) \X (0 .. n - 1) |-> 0]
    /\ paths' = <<>>
    /\ pc' = "generate"
    /\ started' = FALSE
    /\ attempt' = 0
    /\ failures' = 0
    /\ attempts' = 0
    /\ changed' = TRUE
    /\ improved' = TRUE
    /\ iterations' = 0
    /\ pos' = 0
    /\ resets' = 0

\* auth rejects the request: 401, next() is not called
Unauthorized ==
    /\ Listening
    /\ \E req \in Requests :
           /\ ~authorized(req.authorization)
           /\ request' = req
    /\ response' = [status |-> 401]
    /\ constructed' = 0
    /\ UNCHANGED <<genVars, apiVars, pageVars, issued>>

\* the handler rejects the parameters: 400
BadRequest ==
    /\ Listening
    /\ \E req \in Requests :
           /\ authorized(req.authorization)
           /\ invalidRequest(req)
           /\ request' = req
    /\ response' = [status |-> 400]
    /\ constructed' = 0
    /\ UNCHANGED <<genVars, apiVars, pageVars, issued>>

\* GET /api/getPuzzle up to the call of generate()
GetPuzzleStart ==
    /\ Listening
    /\ \E req \in Requests :
           /\ req.endpoint = "getPuzzle"
           /\ authorized(req.authorization)
           /\ ~invalidRequest(req)
           /\ request' = req
           /\ GenConstruct(req.size, req.mode = "hard", req.seed)
           /\ constructed' = 1
    /\ response' = NoResponse
    /\ UNCHANGED <<apiVars, pageVars, issued>>

\* POST /api/validatePuzzle up to the call of generatorRef.generate()
ValidatePuzzleStart ==
    /\ Listening
    /\ \E req \in Requests :
           /\ req.endpoint = "validatePuzzle"
           /\ authorized(req.authorization)
           /\ ~invalidRequest(req)
           /\ request' = req
           /\ GenConstruct(req.size, FALSE, req.seed)
           /\ constructed' = 1
    /\ response' = NoResponse
    /\ UNCHANGED <<apiVars, pageVars, issued>>

\* one step of the generate() a handler has called
Generate ==
    /\ ~Listening
    /\ Next

\* GET /api/getPuzzle after generate(): the puzzle, or 500
GetPuzzleRespond ==
    /\ ~Listening
    /\ request.endpoint = "getPuzzle"
    /\ pc \in {"done", "failed"}
    /\ response' = [status |-> IF pc = "done" THEN 200 ELSE 500]
    /\ issued' = IF pc = "done"
                 THEN [size |-> size, mode |-> request.mode,
                       seed |-> request.seed, cells |-> cells, paths |-> paths]
                 ELSE issued
    /\ UNCHANGED <<genVars, apiVars, pageVars, request, constructed>>

\* POST /api/validatePuzzle after generate(): the image
ValidatePuzzleRespond ==
    /\ ~Listening
    /\ request.endpoint = "validatePuzzle"
    /\ pc \in {"done", "failed"}
    /\ response' = [status |-> 200]
    /\ UNCHANGED <<genVars, apiVars, pageVars, request, constructed, issued>>

ServerInit ==
    /\ size = 1
    /\ cells = [p \in {<<0, 0>>} |-> 0]
    /\ GenIdle
    /\ HostIdle

ServerNext ==
    \/ Unauthorized
    \/ BadRequest
    \/ GetPuzzleStart
    \/ ValidatePuzzleStart
    \/ Generate
    \/ GetPuzzleRespond
    \/ ValidatePuzzleRespond

ServerSpec == ServerInit /\ [][ServerNext]_vars

(***************************************************************************)
(* The page: drawing, undo, redo, reset.  The events are those of one      *)
(* pointer with one button: a press on the canvas is released before the   *)
(* next press, and the buttons are clicked between drags.                  *)
(***************************************************************************)
\* most snapshots kept on undoStack
MaxHistory == 2

\* the seed field on load and on Generate: "3SA" and "3SB"
PageCodes ==
    {[size |-> 3, hardMode |-> FALSE, seed |-> <<65>>],
     [size |-> 3, hardMode |-> FALSE, seed |-> <<66>>]}

\* path.points[0]
startOf(path) == path.points[1]

\* path.points[path.points.length - 1]
endOf(path) == path.points[Len(path.points)]

\* grid.paths.find(p => p.id === id) finds a path
hasPath(id) == \E k \in 1 .. Len(paths) : paths[k].id = id

\* grid.paths.find(p => p.id === id)
pathById(id) ==
    paths[CHOOSE k \in 1 .. Len(paths) :
              /\ paths[k].id = id
              /\ \A j \in 1 .. k - 1 : paths[j].id # id]

\* Math.abs(r - lr) + Math.abs(c - lc)
cellDist(a, b) == Abs(a[1] - b[1]) + Abs(a[2] - b[2])

\* handlePointerDown: the cell is an endpoint dot of the path labelled there
startsDrawing(cell) ==
    /\ cells[cell] > 0
    /\ hasPath(cells[cell])
    /\ \/ cell = startOf(pathById(cells[cell]))
       \/ cell = endOf(pathById(cells[cell]))

\* handlePointerMove: isTargetDot
isTargetDot(cell) ==
    \/ cell = startOf(pathById(activePathId))
    \/ cell = endOf(pathById(activePathId))

\* handlePointerMove: otherDot
otherDot(cell) ==
    \E k \in 1 .. Len(paths) :
        /\ paths[k].id # activePathId
        /\ (cell = startOf(paths[k]) \/ cell = endOf(paths[k]))

\* a move that does not look at the other user paths
occupiedByOther_Never(up, cell) == FALSE

\* handlePointerMove: the cell lies on another user path
occupiedByOther(up, cell) ==
    \E id \in DOMAIN up : id # activePathId /\ cell \in Range(up[id])

\* findIndex, 1-based, 0 when absent
indexOf(points, cell) ==
    IF cell \in Range(points)
    THEN CHOOSE i \in 1 .. Len(points) :
             /\ points[i] = cell
             /\ \A j \in 1 .. i - 1 : points[j] # cell
    ELSE 0

\* handlePointerMove: totalEndsFound
totalEndsFound(points) ==
    (IF startOf(pathById(activePathId)) \in Range(points) THEN 1 ELSE 0)
    + (IF endOf(pathById(activePathId)) \in Range(points) THEN 1 ELSE 0)

\* handlePointerMove(cell) while drawing: userPaths and lastCell afterwards
\* (userPaths[activePathId].findIndex throws, before anything is written, if
\* userPaths has no entry for the active path)
moved(up, cell) ==
    LET same == [paths |-> up, last |-> lastCell]
        pts  == up[activePathId]
        idx  == indexOf(pts, cell)
    IN  IF cell = lastCell \/ cellDist(cell, lastCell) # 1 THEN same
        ELSE IF cells[cell] = -1 /\ ~isTargetDot(cell) THEN same
        ELSE IF otherDot(cell) THEN same
        ELSE IF occupiedByOther(up, cell) THEN same
        ELSE IF activePathId \notin DOMAIN up THEN same
        ELSE IF idx # 0
        THEN IF idx = Len(pts) - 1
             THEN [paths |-> [up EXCEPT ![activePathId] =
                                 SubSeq(pts, 1, Len(pts) - 1)],
                   last  |-> cell]
             ELSE same
        ELSE IF totalEndsFound(pts) >= 2 /\ Len(pts) > 1 THEN same
        ELSE [paths |-> [up EXCEPT ![activePathId] = Append(pts, cell)],
              last  |-> cell]

\* handlePointerUp / checkWin: the user path joins the two dots of the path
complete(path, userPath) ==
    \/ userPath[1] = startOf(path) /\ userPath[Len(userPath)] = endOf(path)
    \/ userPath[1] = endOf(path) /\ userPath[Len(userPath)] = startOf(path)

\* checkWin: allConnected
allConnected(up) ==
    \A k \in 1 .. Len(paths) :
        /\ paths[k].id \in DOMAIN up
        /\ Len(up[paths[k].id]) >= 2
        /\ complete(paths[k], up[paths[k].id])

\* checkWin(): updateTitle(true) when all are connected, nothing otherwise
checkWin(up) == titleWon' = (titleWon \/ allConnected(up))

\* delete userPaths[id]
without(up, id) == [k \in DOMAIN up \ {id} |-> up[k]]

\* the page on load: init() has called generate(), which has reset the game
\* state, built the Grid and the Random and scheduled the generation
PageInit ==
    /\ \E code \in PageCodes :
           /\ size = code.size
           /\ options = [hardMode |-> code.hardMode, random |-> TRUE]
           /\ seed = hashString(code.seed)
           /\ cells = [p \in (0 .. code.size - 1) \X (0 .. code.size - 1) |-> 0]
    /\ paths = <<>>
    /\ pc = "generate"
    /\ started = FALSE
    /\ attempt = 0
    /\ failures = 0
    /\ attempts = 0
    /\ changed = TRUE
    /\ improved = TRUE
    /\ iterations = 0
    /\ pos = 0
    /\ resets = 0
    /\ ApiIdle
    /\ ServerIdle
    /\ userPaths = NoPaths
    /\ isDrawing = FALSE
    /\ activePathId = 0
    /\ lastCell = Null
    /\ undoStack = <<>>
    /\ redoStack = <<>>
    /\ prevUserPaths = NoSnapshot
    /\ titleWon = FALSE
    /\ generating = TRUE
    /\ LevelIdle

\* one step of the generate() the timeout callback has called
PageGenerate ==
    /\ generating
    /\ Next

\* the timeout callback after generate(): empty cells become stones
PageLoaded ==
    /\ generating
    /\ pc \in {"done", "failed"}
    /\ cells' = IF pc = "done"
                THEN [p \in DOMAIN cells |->
                         IF cells[p] = 0 THEN -1 ELSE cells[p]]
                ELSE cells
    /\ generating' = FALSE
    /\ UNCHANGED <<size, options, seed, paths, pc, started, attempt, failures,
                   attempts, changed, improved, iterations, pos, resets,
                   apiVars, serverVars, userPaths, isDrawing, activePathId,
                   lastCell, undoStack, redoStack, prevUserPaths, titleWon>>
    /\ UNCHANGED levelVars

\* the Generate button: generate() up to the timeout
GenerateClick ==
    /\ ~generating
    /\ ~isDrawing
    /\ \E code \in PageCodes :
           GenConstruct(code.size, code.hardMode, code.seed)
    /\ userPaths' = NoPaths
    /\ undoStack' = <<>>
    /\ redoStack' = <<>>
    /\ isDrawing' = FALSE
    /\ activePathId' = 0
    /\ lastCell' = Null
    /\ titleWon' = FALSE
    /\ generating' = TRUE
    /\ UNCHANGED <<apiVars, serverVars, prevUserPaths>>
    /\ UNCHANGED levelVars

\* mousedown on the canvas, with one pointer and one button: a mousedown
\* follows the mouseup of the press before it
MouseDown ==
    /\ ~generating
    /\ ~isDrawing
    /\ Len(undoStack) < MaxHistory
    /\ redoStack' = <<>>
    /\ prevUserPaths' = [set |-> TRUE, paths |-> userPaths]
    /\ \E cell \in Coords :
           IF startsDrawing(cell)
           THEN /\ isDrawing' = TRUE
                /\ activePathId' = cells[cell]
                /\ userPaths' = (cells[cell] :> <<cell>>) @@ userPaths
                /\ lastCell' = cell
           ELSE UNCHANGED <<isDrawing, activePathId, userPaths, lastCell>>
    /\ UNCHANGED <<genVars, apiVars, serverVars, undoStack, titleWon,
                   generating>>
    /\ UNCHANGED levelVars

\* mousemove while drawing
MouseMove ==
    /\ ~generating
    /\ isDrawing
    /\ activePathId # 0
    /\ \E cell \in Coords :
           /\ userPaths' = moved(userPaths, cell).paths
           /\ lastCell' = moved(userPaths, cell).last
    /\ UNCHANGED <<genVars, apiVars, serverVars, isDrawing, activePathId,
                   undoStack, redoStack, prevUserPaths, titleWon, generating>>
    /\ UNCHANGED levelVars

\* mouseup while drawing (userPaths always holds the path being drawn)
MouseUpDrawing ==
    /\ ~generating
    /\ isDrawing
    /\ activePathId # 0
    /\ activePathId \in DOMAIN userPaths
    /\ IF complete(pathById(activePathId), userPaths[activePathId])
       THEN /\ undoStack' = IF prevUserPaths.set
                            THEN Append(undoStack, prevUserPaths.paths)
                            ELSE undoStack
            /\ UNCHANGED userPaths
            /\ checkWin(userPaths)
       ELSE /\ userPaths' = without(userPaths, activePathId)
            /\ UNCHANGED undoStack
            /\ checkWin(without(userPaths, activePathId))
    /\ prevUserPaths' = NoSnapshot
    /\ isDrawing' = FALSE
    /\ activePathId' = 0
    /\ lastCell' = Null
    /\ UNCHANGED <<genVars, apiVars, serverVars, redoStack, generating>>
    /\ UNCHANGED levelVars

\* mouseup while not drawing
MouseUpIdle ==
    /\ ~generating
    /\ ~isDrawing
    /\ prevUserPaths' = NoSnapshot
    /\ activePathId' = 0
    /\ lastCell' = Null
    /\ UNCHANGED <<genVars, apiVars, serverVars, userPaths, isDrawing,
                   undoStack, redoStack, titleWon, generating>>
    /\ UNCHANGED levelVars

\* the Undo button
Undo ==
    /\ ~generating
    /\ ~isDrawing
    /\ Len(undoStack) > 0
    /\ redoStack' = Append(redoStack, userPaths)
    /\ userPaths' = undoStack[Len(undoStack)]
    /\ undoStack' = SubSeq(undoStack, 1, Len(undoStack) - 1)
    /\ checkWin(undoStack[Len(undoStack)])
    /\ UNCHANGED <<genVars, apiVars, serverVars, isDrawing, activePathId,
                   lastCell, prevUserPaths, generating>>
    /\ UNCHANGED levelVars

\* the Redo button
Redo ==
    /\ ~generating
    /\ ~isDrawing
    /\ Len(redoStack) > 0
    /\ Len(undoStack) < MaxHistory
    /\ undoStack' = Append(undoStack, userPaths)
    /\ userPaths' = redoStack[Len(redoStack)]
    /\ redoStack' = SubSeq(redoStack, 1, Len(redoStack) - 1)
    /\ checkWin(redoStack[Len(redoStack)])
    /\ UNCHANGED <<genVars, apiVars, serverVars, isDrawing, activePathId,
                   lastCell, prevUserPaths, generating>>
    /\ UNCHANGED levelVars

\* the Reset button
ResetClick ==
    /\ ~generating
    /\ ~isDrawing
    /\ userPaths' = NoPaths
    /\ undoStack' = <<>>
    /\ redoStack' = <<>>
    /\ UNCHANGED <<genVars, apiVars, serverVars, isDrawing, activePathId,
                   lastCell, prevUserPaths, titleWon, generating>>
    /\ UNCHANGED levelVars

PageNext ==
    \/ PageGenerate
    \/ PageLoaded
    \/ GenerateClick
    \/ MouseDown
    \/ MouseMove
    \/ MouseUpDrawing
    \/ MouseUpIdle
    \/ Undo
    \/ Redo
    \/ ResetClick

PageSpec == PageInit /\ [][PageNext]_vars

(***************************************************************************)
(* The page under mouse and touch together: the touch listeners beside the *)
(* mouse listeners.  touchend and touchcancel run handlePointerUp, the     *)
(* handler of mouseup.                                                     *)
(***************************************************************************)
\* touchstart with one touch on the canvas: handlePointerDown(e.touches[0]);
\* followed up to the first connection saved to the history
TouchStartOne ==
    /\ ~generating
    /\ ~isDrawing
    /\ undoStack = <<>>
    /\ redoStack' = <<>>
    /\ prevUserPaths' = [set |-> TRUE, paths |-> userPaths]
    /\ \E cell \in Coords :
           IF startsDrawing(cell)
           THEN /\ isDrawing' = TRUE
                /\ activePathId' = cells[cell]
                /\ userPaths' = (cells[cell] :> <<cell>>) @@ userPaths
                /\ lastCell' = cell
           ELSE UNCHANGED <<isDrawing, activePathId, userPaths, lastCell>>
    /\ UNCHANGED <<genVars, apiVars, serverVars, undoStack, titleWon,
                   generating>>
    /\ UNCHANGED levelVars

\* touchstart with more than one touch: a drawing in progress is dropped
TouchStartMany ==
    /\ ~generating
    /\ redoStack' = <<>>
    /\ prevUserPaths' = [set |-> TRUE, paths |-> userPaths]
    /\ isDrawing' = FALSE
    /\ activePathId' = IF isDrawing THEN 0 ELSE activePathId
    /\ UNCHANGED <<genVars, apiVars, serverVars, userPaths, lastCell,
                   undoStack, titleWon, generating>>
    /\ UNCHANGED levelVars

\* touchmove with one touch while drawing: handlePointerMove(e.touches[0])
TouchMoveOne ==
    /\ ~generating
    /\ isDrawing
    /\ activePathId # 0
    /\ \E cell \in Coords :
           /\ userPaths' = moved(userPaths, cell).paths
           /\ lastCell' = moved(userPaths, cell).last
    /\ UNCHANGED <<genVars, apiVars, serverVars, isDrawing, activePathId,
                   undoStack, redoStack, prevUserPaths, titleWon, generating>>
    /\ UNCHANGED levelVars

\* touchmove with more than one touch while drawing (a drawing begun with
\* the mouse): the drawing is dropped
TouchMoveMany ==
    /\ ~generating
    /\ isDrawing
    /\ isDrawing' = FALSE
    /\ activePathId' = 0
    /\ UNCHANGED <<genVars, apiVars, serverVars, userPaths, lastCell,
                   undoStack, redoStack, prevUserPaths, titleWon, generating>>
    /\ UNCHANGED levelVars

\* the touch events of the level the page has loaded; mousedown and
\* mousemove act as the touch events with one touch do
TouchNext ==
    \/ PageGenerate
    \/ PageLoaded
    \/ MouseUpDrawing
    \/ MouseUpIdle
    \/ TouchStartOne
    \/ TouchStartMany
    \/ TouchMoveOne
    \/ TouchMoveMany

TouchSpec == PageInit /\ [][TouchNext]_vars

(***************************************************************************)
(* The level code of the page (main.js): the size, the endpoint pairs and  *)
(* the stones of the grid written in base 36.  Strings are sequences of    *)
(* one-character strings.  The grids the code is taken from are produced   *)
(* by the Generator running with a Random source.                          *)
(***************************************************************************)
MinCodeSize == 5
MaxCodeSize == 20

\* the value isNaN() recognises
NaN == -1

Digits36 ==
    <<"0", "1", "2", "3", "4", "5", "6", "7", "8", "9", "a", "b", "c", "d",
      "e", "f", "g", "h", "i", "j", "k", "l", "m", "n", "o", "p", "q", "r",
      "s", "t", "u", "v", "w", "x", "y", "z">>

\* n.toString(radix) for n >= 0; "NaN" for NaN
RECURSIVE toStringRadix(_, _)
toStringRadix(n, radix) ==
    IF n = NaN THEN <<"N", "a", "N">>
    ELSE IF n < radix THEN <<Digits36[n + 1]>>
    ELSE Append(toStringRadix(n \div radix, radix), Digits36[(n % radix) + 1])

\* a toBase36 that keeps the last digit only
toBase36_LastDigit(n) == <<Digits36[(n % 36) + 1]>>

\* toBase36: n.toString(36)
toBase36(n) == toStringRadix(n, 36)

\* parseInt(char, radix) of one character
parseDigit(char, radix) ==
    IF \E d \in 1 .. radix : Digits36[d] = char
    THEN (CHOOSE d \in 1 .. radix : Digits36[d] = char) - 1
    ELSE NaN

\* fromBase36: parseInt(char, 36)
fromBase36(char) == parseDigit(char, 36)

\* parseInt(chunk, 2) of a chunk of binary digits
RECURSIVE parseBinary(_)
parseBinary(chunk) ==
    IF chunk = <<>> THEN 0
    ELSE 2 * parseBinary(SubSeq(chunk, 1, Len(chunk) - 1))
         + parseDigit(chunk[Len(chunk)], 2)

\* a padStart that pads nothing
padStart_None(str, n, ch) == str

\* str.padStart(n, ch)
padStart(str, n, ch) ==
    IF Len(str) >= n THEN str
    ELSE [k \in 1 .. n - Len(str) |-> ch] \o str

\* the cells of a grid of size n in the order of the loops over r and c
RowMajor(n) == [k \in 1 .. n * n |-> <<(k - 1) \div n, (k - 1) % n>>]

\* exportLevelCode: the four characters of one path
pairCode(p) ==
    toBase36(p.points[1][1]) \o toBase36(p.points[1][2])
    \o toBase36(p.points[Len(p.points)][1])
    \o toBase36(p.points[Len(p.points)][2])

\* exportLevelCode: grid.paths.forEach(p => code += ...)
RECURSIVE pairsCode(_)
pairsCode(ps) ==
    IF ps = <<>> THEN <<>>
    ELSE pairCode(Head(ps)) \o pairsCode(Tail(ps))

\* exportLevelCode: one bit per cell, "1" for a stone
stoneBits(n, cs) ==
    [k \in 1 .. n * n |-> IF cs[RowMajor(n)[k]] = -1 THEN "1" ELSE "0"]

\* while (bits.length % 5 !== 0) bits += "0"
RECURSIVE padBits(_)
padBits(bits) ==
    IF Len(bits) % 5 = 0 THEN bits ELSE padBits(Append(bits, "0"))

\* exportLevelCode: each chunk of five bits as a base-36 number
RECURSIVE chunkCodes(_)
chunkCodes(bits) ==
    IF bits = <<>> THEN <<>>
    ELSE toStringRadix(parseBinary(SubSeq(bits, 1, 5)), 36)
         \o chunkCodes(SubSeq(bits, 6, Len(bits)))

\* exportLevelCode: the value written to levelCodeInput
exportLevelCode(n, cs, ps) ==
    toBase36(n) \o pairsCode(ps) \o <<"-">>
    \o chunkCodes(padBits(stoneBits(n, cs)))

\* str.trim()
RECURSIVE trim(_)
trim(str) ==
    IF str = <<>> THEN str
    ELSE IF Head(str) = " " THEN trim(Tail(str))
    ELSE IF str[Len(str)] = " " THEN trim(SubSeq(str, 1, Len(str) - 1))
    ELSE str

\* the characters of str before the first "-"
RECURSIVE beforeDash(_)
beforeDash(str) ==
    IF str = <<>> \/ Head(str) = "-" THEN <<>>
    ELSE <<Head(str)>> \o beforeDash(Tail(str))

\* fullCode.split("-")[0]
codePart(fullCode) == beforeDash(fullCode)

\* fullCode.split("-")[1], empty when there is none
bitmaskPart(fullCode) ==
    IF Len(beforeDash(fullCode)) >= Len(fullCode) THEN <<>>
    ELSE beforeDash(SubSeq(fullCode, Len(beforeDash(fullCode)) + 2,
                           Len(fullCode)))

\* loadLevelCode: bits += parseInt(char, 36).toString(2).padStart(5, "0")
RECURSIVE bitsOfMask(_)
bitsOfMask(bitmask) ==
    IF bitmask = <<>> THEN <<>>
    ELSE padStart(toStringRadix(fromBase36(Head(bitmask)), 2), 5, "0")
         \o bitsOfMask(Tail(bitmask))

\* loadLevelCode: new Grid(size) with the cells whose bit is "1" set to -1
stonesOfBits(n, bits) ==
    [p \in (0 .. n - 1) \X (0 .. n - 1) |->
        IF /\ p[1] * n + p[2] + 1 <= Len(bits)
           /\ bits[p[1] * n + p[2] + 1] = "1"
        THEN -1 ELSE 0]

LevelColors ==
    <<"#ff0000", "#00ff00", "#0000ff", "#ffff00", "#00ffff", "#ff00ff",
      "#ffa500", "#800080", "#008000", "#000080", "#ffc0cb", "#a52a2a",
      "#808080", "#ffffff", "#ffd700", "#4b0082", "#40e0d0", "#fa8072",
      "#ffe4e1", "#d2b48c">>

\* loadLevelCode: the path pushed for one chunk of four coordinates
importedPath(pathId, coords) ==
    [id |-> pathId,
     color |-> LevelColors[((pathId - 1) % Len(LevelColors)) + 1],
     points |-> <<<<coords[1], coords[2]>>, <<coords[3], coords[4]>>>>,
     isFiller |-> FALSE]

\* loadLevelCode: the loop over the chunks of body from index i on; g holds
\* the cells and paths so far and whether "Invalid coordinate" was thrown
RECURSIVE parsePairs(_, _, _, _)
parsePairs(body, n, i, g) ==
    IF i + 3 >= Len(body) THEN g
    ELSE LET coords == [k \in 1 .. 4 |-> fromBase36(body[i + k])]
             pathId == Len(g.paths) + 1
         IN  IF \E k \in 1 .. 4 :
                    coords[k] = NaN \/ coords[k] < 0 \/ coords[k] >= n
             THEN [g EXCEPT !.thrown = TRUE]
             ELSE parsePairs(body, n, i + 4,
                      [cells |-> [g.cells EXCEPT
                                     ![<<coords[1], coords[2]>>] = pathId,
                                     ![<<coords[3], coords[4]>>] = pathId],
                       paths |-> Append(g.paths,
                                        importedPath(pathId, coords)),
                       thrown |-> FALSE])

HintDirs == <<<<-1, 0>>, <<1, 0>>, <<0, -1>>, <<0, 1>>>>

\* calculateHintsForImported: queue and visited set after neighbour nb of the
\* last cell of p has been looked at
hintTake(n, cs, end, p, st, nb) ==
    IF /\ nb[1] >= 0 /\ nb[1] < n /\ nb[2] >= 0 /\ nb[2] < n
       /\ nb \notin st.visited
       /\ (cs[nb] = 0 \/ nb = end)
    THEN [q |-> Append(st.q, Append(p, nb)),
          visited |-> st.visited \cup {nb}]
    ELSE st

RECURSIVE hintVisit(_, _, _, _, _, _)
hintVisit(n, cs, end, p, st, k) ==
    IF k > 4 THEN st
    ELSE hintVisit(n, cs, end, p,
                   hintTake(n, cs, end, p, st,
                            <<p[Len(p)][1] + HintDirs[k][1],
                              p[Len(p)][2] + HintDirs[k][2]>>),
                   k + 1)

\* calculateHintsForImported: while (queue.length > 0); Null when the queue
\* runs empty
RECURSIVE hintLoop(_, _, _, _)
hintLoop(n, cs, end, st) ==
    IF st.q = <<>> THEN Null
    ELSE IF Head(st.q)[Len(Head(st.q))] = end THEN Head(st.q)
    ELSE hintLoop(n, cs, end,
                  hintVisit(n, cs, end, Head(st.q),
                            [q |-> Tail(st.q), visited |-> st.visited], 1))

\* calculateHintsForImported: path.points = p where the search arrives
calculateHintsForImported(n, cs, ps) ==
    [k \in 1 .. Len(ps) |->
        LET p == hintLoop(n, cs, ps[k].points[2],
                          [q |-> <<<<ps[k].points[1]>>>>,
                           visited |-> {ps[k].points[1]}])
        IN  IF p = Null THEN ps[k] ELSE [ps[k] EXCEPT !.points = p]]

\* const size = fromBase36(code[0])
sizeOfCode(code) == IF code = <<>> THEN NaN ELSE fromBase36(code[1])

\* if (isNaN(size) || size < 5 || size > 20) throw
invalidCodeSize(n) == n = NaN \/ n < MinCodeSize \/ n > MaxCodeSize

\* loadLevelCode: the grid built from fullCode, whose size is valid
loadedGrid(fullCode) ==
    LET n == sizeOfCode(codePart(fullCode))
        g == parsePairs(SubSeq(codePart(fullCode), 2,
                               Len(codePart(fullCode))),
                        n, 0,
                        [cells |-> stonesOfBits(n,
                                       bitsOfMask(bitmaskPart(fullCode))),
                         paths |-> <<>>,
                         thrown |-> FALSE])
    IN  [size |-> n,
         cells |-> g.cells,
         paths |-> IF g.thrown THEN g.paths
                   ELSE calculateHintsForImported(n, g.cells, g.paths)]

\* the page opens on a grid being generated
LevelInit ==
    /\ \E n \in MinCodeSize .. MaxSize, hard \in BOOLEAN, s \in Seeds :
           /\ size = n
           /\ options = [hardMode |-> hard, random |-> TRUE]
           /\ seed = RandomOfSeed(s)
           /\ cells = [p \in (0 .. n - 1) \X (0 .. n - 1) |-> 0]
    /\ paths = <<>>
    /\ pc = "generate"
    /\ started = FALSE
    /\ attempt = 0
    /\ failures = 0
    /\ attempts = 0
    /\ changed = TRUE
    /\ improved = TRUE
    /\ iterations = 0
    /\ pos = 0
    /\ resets = 0
    /\ ApiIdle
    /\ ServerIdle
    /\ userPaths = NoPaths
    /\ isDrawing = FALSE
    /\ activePathId = 0
    /\ lastCell = Null
    /\ undoStack = <<>>
    /\ redoStack = <<>>
    /\ prevUserPaths = NoSnapshot
    /\ titleWon = FALSE
    /\ generating = TRUE
    /\ LevelIdle

\* generate(): generator.generate() in the timeout callback
LevelGenerate ==
    /\ generating
    /\ Next

\* generate(): the rest of the timeout callback; on success the empty cells
\* become stones and exportLevelCode() writes the code
LevelLoaded ==
    /\ generating
    /\ pc \in {"done", "failed", "threw"}
    /\ cells' = IF pc = "done"
                THEN [p \in DOMAIN cells |->
                         IF cells[p] = 0 THEN -1 ELSE cells[p]]
                ELSE cells
    /\ levelCodeInput' = IF pc = "done"
                         THEN exportLevelCode(size, cells', paths)
                         ELSE levelCodeInput
    /\ generating' = FALSE
    /\ UNCHANGED <<size, options, seed, paths, pc, started, attempt, failures,
                   attempts, changed, improved, iterations, pos, resets,
                   apiVars, serverVars, userPaths, isDrawing, activePathId,
                   lastCell, undoStack, redoStack, prevUserPaths, titleWon,
                   isImported>>

\* the Load button: loadLevelCode() on a code whose size is valid
LoadLevelCode ==
    /\ ~generating
    /\ trim(levelCodeInput) # <<>>
    /\ ~invalidCodeSize(sizeOfCode(codePart(trim(levelCodeInput))))
    /\ size' = loadedGrid(trim(levelCodeInput)).size
    /\ cells' = loadedGrid(trim(levelCodeInput)).cells
    /\ paths' = loadedGrid(trim(levelCodeInput)).paths
    /\ isImported' = TRUE
    /\ userPaths' = NoPaths
    /\ isDrawing' = FALSE
    /\ activePathId' = 0
    /\ lastCell' = Null
    /\ titleWon' = FALSE
    /\ UNCHANGED <<options, seed, pc, started, attempt, failures, attempts,
                   changed, improved, iterations, pos, resets, apiVars,
                   serverVars, undoStack, redoStack, prevUserPaths,
                   generating, levelCodeInput>>

LevelNext ==
    \/ LevelGenerate
    \/ LevelLoaded
    \/ LoadLevelCode

LevelSpec == LevelInit /\ [][LevelNext]_vars

(***************************************************************************)
(* Direct calls of findShortestPath and addPair on a Generator whose Grid  *)
(* the caller has filled: the cells outside the top-left window hold       *)
(* stones, each cell inside it is empty or holds a stone.                  *)
(***************************************************************************)
RouteSizes == {3}
PairSizes == {3, 5}
PairSeeds == {1, 7, 22}
MaxPairCalls == 2

Window == (0 .. 2) \X (0 .. 2)

\* the grids of size n the caller may have made with setCell(r, c, -1)
DrawnGrids(n) ==
    {[p \in (0 .. n - 1) \X (0 .. n - 1) |-> IF p \in open THEN 0 ELSE -1] :
        open \in SUBSET Window}

RouteInit ==
    /\ size \in RouteSizes
    /\ cells \in DrawnGrids(size)
    /\ GenIdle
    /\ HostIdle

\* generator.findShortestPath(start, end), once on each grid drawn
FindShortestPathCall ==
    /\ call = NoCall
    /\ \E start \in DOMAIN cells, end \in DOMAIN cells :
           call' = [op |-> "findShortestPath", start |-> start, end |-> end,
                    result |-> findShortestPath(cells, start, end)]
    /\ UNCHANGED <<genVars, seedArg, sources, draws, serverVars, pageVars>>

RouteNext == FindShortestPathCall

RouteSpec == RouteInit /\ [][RouteNext]_vars

PairInit ==
    /\ size \in PairSizes
    /\ cells \in DrawnGrids(size)
    /\ \E hard \in BOOLEAN : options = [hardMode |-> hard, random |-> TRUE]
    /\ \E s \in PairSeeds : seed = RandomOfSeed(s)
    /\ paths = <<>>
    /\ pc = "generate"
    /\ started = FALSE
    /\ attempt = 0
    /\ failures = 0
    /\ attempts = 0
    /\ changed = TRUE
    /\ improved = TRUE
    /\ iterations = 0
    /\ pos = 0
    /\ resets = 0
    /\ HostIdle

\* generator.addPair()
AddPairCall ==
    /\ IF call.op = "none" THEN TRUE ELSE call.count < MaxPairCalls
    /\ cells' = addPair(cells, paths, seed).cells
    /\ paths' = addPair(cells, paths, seed).paths
    /\ seed' = addPair(cells, paths, seed).seed
    /\ call' = [op |-> "addPair",
                result |-> addPair(cells, paths, seed).ok,
                count |-> IF call.op = "none" THEN 1 ELSE call.count + 1]
    /\ UNCHANGED <<size, options, pc, started, attempt, failures, attempts,
                   changed, improved, iterations, pos, resets, seedArg,
                   sources, draws, serverVars, pageVars>>

PairNext == AddPairCall

PairSpec == PairInit /\ [][PairNext]_vars

(***************************************************************************)
(* mergeCollinearPaths() called on a grid whose paths the caller has drawn. *)
(***************************************************************************)
MergeSizes == {8}

\* n cells from (r, c) on in steps of (dr, dc)
Segment(r, c, dr, dc, n) ==
    [k \in 1 .. n |-> <<r + (k - 1) * dr, c + (k - 1) * dc>>]

\* straight runs along row 2 in both directions, a run down column 4 in
\* both directions and a corner
DrawnShapes ==
    {Segment(2, 2, 0, 1, 3), Segment(2, 4, 0, -1, 3),
     Segment(2, 5, 0, 1, 3), Segment(2, 7, 0, -1, 3),
     Segment(2, 0, 0, 1, 2), Segment(2, 1, 0, -1, 2),
     Segment(3, 4, 1, 0, 3), Segment(5, 4, -1, 0, 3),
     << <<1, 5>>, <<2, 5>>, <<2, 6>> >>}

\* two paths without self-contact, each ending beside the other's first and
\* last cell: the last cells (1,1) and (1,2) meet in line along row 1
WrapOuter ==
    Segment(0, 2, 0, 1, 4) \o Segment(1, 5, 1, 0, 4) \o Segment(4, 4, 0, -1, 5)
        \o Segment(3, 0, -1, 0, 3) \o << <<1, 1>> >>

WrapInner ==
    << <<2, 1>> >> \o Segment(3, 1, 0, 1, 4) \o Segment(2, 4, -1, 0, 2)
        \o Segment(1, 3, 0, -1, 2)

Disjoint(a, b) == Range(a) \cap Range(b) = {}

\* the point lists of the paths drawn, in list order
DrawnLayouts ==
    {<<a, b>> : a \in DrawnShapes, b \in DrawnShapes} \cup
    {<<a, b, c>> : a \in DrawnShapes, b \in DrawnShapes, c \in DrawnShapes} \cup
    {<<WrapOuter, WrapInner>>, <<WrapInner, WrapOuter>>}

PairwiseDisjoint(layout) ==
    \A k, m \in 1 .. Len(layout) : k # m => Disjoint(layout[k], layout[m])

\* the paths as addPair would have pushed them: id = list position
pathsOf(layout) == [k \in 1 .. Len(layout) |-> NewPath(k, layout[k], FALSE)]

\* the cells labelled with the ids of the paths that cover them
cellsOf(n, ps) ==
    [p \in (0 .. n - 1) \X (0 .. n - 1) |->
        IF \E k \in 1 .. Len(ps) : p \in Range(ps[k].points)
        THEN ps[CHOOSE k \in 1 .. Len(ps) : p \in Range(ps[k].points)].id
        ELSE 0]

MergeInit ==
    /\ size \in MergeSizes
    /\ \E layout \in DrawnLayouts :
           /\ PairwiseDisjoint(layout)
           /\ paths = pathsOf(layout)
    /\ cells = cellsOf(size, paths)
    /\ options = [hardMode |-> FALSE, random |-> TRUE]
    /\ seed = RandomOfSeed(1)
    /\ pc = "merge"
    /\ started = FALSE
    /\ attempt = 0
    /\ failures = 0
    /\ attempts = 0
    /\ changed = TRUE
    /\ improved = TRUE
    /\ iterations = 0
    /\ pos = 0
    /\ resets = 0
    /\ HostIdle

\* generator.mergeCollinearPaths(): the passes of its while loop
MergeNext ==
    \/ MergeStep
    \/ MergeReturn

MergeSpec == MergeInit /\ [][MergeNext]_vars

(***************************************************************************)
(* Properties.                                                             *)
(***************************************************************************)
Manhattan(a, b) == Abs(a[1] - b[1]) + Abs(a[2] - b[2])

First(path) == path.points[1]
Last(path) == path.points[Len(path.points)]

PathCells(k) == Range(paths[k].points)

\* generate() has returned true
Returned == pc = "done"

\* a phase of the attempt has just returned (fillGreedy with true): the state
\* in which the next phase, the validation or the return finds the grid
AtPhaseBoundary ==
    /\ pc \in Range(Phases) \ {"fillGreedy"}
    /\ ~started

\* a merge has removed a path in this attempt: an id exceeds the path count
SomePathAbsorbed == \E k \in 1 .. Len(paths) : paths[k].id > Len(paths)

\* C1: whenever generate() has returned true, every path has at least 3
\* points and its first and last point are at Manhattan distance at least 2.
C1_StructuralValidity ==
    Returned =>
        \A k \in 1 .. Len(paths) :
            /\ Len(paths[k].points) >= 3
            /\ Manhattan(First(paths[k]), Last(paths[k])) >= 2

\* generate() returned true with a merged path among several
C1_Witness ==
    /\ Returned
    /\ Len(paths) >= 2
    /\ \E k \in 1 .. Len(paths) : paths[k].isFiller /\ Len(paths[k].points) >= 6

\* C2: at every phase boundary the cell matrix and the path list agree: no
\* cell lies on two paths, a cell on a path carries that path's id, and every
\* other cell is 0.
C2_CellsMatchPaths ==
    AtPhaseBoundary =>
        /\ \A i, j \in 1 .. Len(paths) :
              i # j => PathCells(i) \cap PathCells(j) = {}
        /\ \A p \in Coords :
              IF \E k \in 1 .. Len(paths) : p \in PathCells(k)
              THEN \A k \in 1 .. Len(paths) :
                      p \in PathCells(k) => cells[p] = paths[k].id
              ELSE cells[p] = 0

\* the boundary after mergeCollinearPaths, a path having been absorbed
C2_Witness ==
    /\ pc = "shuffle"
    /\ ~started
    /\ SomePathAbsorbed

\* C3: at every phase boundary every path is a simple rectilinear walk: all
\* points in the grid, consecutive points one orthogonal step apart, no
\* coordinate twice.
C3_SimpleWalks ==
    AtPhaseBoundary =>
        \A k \in 1 .. Len(paths) :
            LET pts == paths[k].points
            IN  /\ \A i \in 1 .. Len(pts) : pts[i] \in Coords
                /\ \A i \in 1 .. Len(pts) - 1 : Manhattan(pts[i], pts[i + 1]) = 1
                /\ \A i, j \in 1 .. Len(pts) : i # j => pts[i] # pts[j]

\* the boundary after an extension pass in which some path grew at its start
C3_Witness ==
    /\ pc = "fill1"
    /\ ~started
    /\ \E k \in 1 .. Len(paths) : paths[k].pointTypes[1] = EXTENSION

\* C4: whenever generate() has returned true for a Generator constructed with
\* hardMode on, every path not marked isFiller has its first and last point
\* in different rows and in different columns.
C4_HardModeEndpoints ==
    (Returned /\ options.hardMode) =>
        \A k \in 1 .. Len(paths) :
            ~paths[k].isFiller =>
                /\ First(paths[k])[1] # Last(paths[k])[1]
                /\ First(paths[k])[2] # Last(paths[k])[2]

\* a hard-mode success holding a non-filler path and a straight filler path
C4_Witness ==
    /\ Returned
    /\ options.hardMode
    /\ \E k \in 1 .. Len(paths) : ~paths[k].isFiller
    /\ \E k \in 1 .. Len(paths) :
          /\ paths[k].isFiller
          /\ First(paths[k])[1] = Last(paths[k])[1]

\* the points of pts that are orthogonal neighbours of pts[i] without being
\* its predecessor or successor in the sequence
ExtraNeighbours(pts, i) ==
    {j \in 1 .. Len(pts) : j \notin {i - 1, i, i + 1} /\ Manhattan(pts[i], pts[j]) = 1}

\* C5: whenever generate() has returned true, every interior point of every
\* path has at most one 4-neighbour on the same path besides its predecessor
\* and successor; merged paths included.
C5_Thinness ==
    Returned =>
        \A k \in 1 .. Len(paths) :
            \A i \in 2 .. Len(paths[k].points) - 1 :
                Cardinality(ExtraNeighbours(paths[k].points, i)) <= 1

\* what validateGrid is to accept: 3 points or more, endpoints not adjacent,
\* and in hard mode no non-filler path with endpoints in one row or column
GridIsValid ==
    \A k \in 1 .. Len(paths) :
        /\ Len(paths[k].points) >= 3
        /\ Manhattan(First(paths[k]), Last(paths[k])) # 1
        /\ (options.hardMode /\ ~paths[k].isFiller) =>
              /\ First(paths[k])[1] # Last(paths[k])[1]
              /\ First(paths[k])[2] # Last(paths[k])[2]

\* C7: generate() makes at most 500 attempts, each starting with a reset
\* grid; it returns true at the first attempt whose validation passes,
\* without touching the grid after that validation; it returns false only
\* after 500 failed attempts.
C7_AttemptLoop ==
    /\ [](/\ attempt <= 500
          /\ resets <= 500
          /\ resets = IF pc \in {"generate", "failed"} THEN attempt
                      ELSE attempt + 1
          /\ (pc = "fillGreedy" /\ ~started) =>
                (paths = <<>> /\ \A p \in Coords : cells[p] = 0)
          /\ (pc = "failed") => (attempt = 500)
          /\ Returned => GridIsValid)
    /\ [][/\ (pc = "validate" /\ GridIsValid) =>
                (pc' = "done" /\ UNCHANGED <<cells, paths, resets, attempt>>)
          /\ (pc = "validate" /\ ~GridIsValid) =>
                (pc' = "generate" /\ attempt' = attempt + 1)
          /\ (pc' = "done") => (pc = "validate")
          /\ (resets' # resets) => (pc = "generate" /\ pc' = "fillGreedy")]_vars

\* generate() returned true at a later attempt than the first
C7_Witness ==
    /\ Returned
    /\ attempt >= 1
    /\ resets = attempt + 1

\* how far generate() has come: attempts made, then the position within the
\* attempt (its start, the passes of fillGreedy's loop, the return)
Progress ==
    (attempt * (MaxAttempts + 3))
        + (IF pc = "generate" THEN 0
           ELSE IF pc = "fillGreedy" THEN 1 + attempts
           ELSE MaxAttempts + 2)

\* C8: on a grid too small to hold two paths (1x1, 2x2) generate() makes
\* exactly 500 attempts and then returns false.  It never returns true and
\* never leaves the attempt loop for a later phase; when it has returned, 500
\* attempts and 500 resets were made; and every step brings the bounded
\* measure Progress forward, so the run cannot go on forever.
C8_ExhaustionOnSmallGrid ==
    /\ []((size < 3) =>
            /\ pc \in {"generate", "fillGreedy", "failed"}
            /\ (pc = "failed") => (attempt = 500 /\ resets = 500)
            /\ (pc = "fillGreedy") => (resets = attempt + 1 /\ attempts <= MaxAttempts)
            /\ Progress <= (500 * (MaxAttempts + 3)) + MaxAttempts + 2)
    /\ [][(size < 3) => (Progress' > Progress)]_vars

\* generate() returned false on the 2x2 grid, where attempts do commit a path
C8_Witness ==
    /\ pc = "failed"
    /\ size = 2
    /\ resets = 500
    /\ Len(paths) = 1

\* C9: whenever generate() has returned true, the path at list position i
\* (1-based here) has id i, the color hsl(((id-1)*137.5) mod 360, 85%, 60%),
\* and every cell of it is labelled with that id.
C9_IdsColorsLabels ==
    Returned =>
        \A i \in 1 .. Len(paths) :
            /\ paths[i].id = i
            /\ paths[i].color = <<((i - 1) * 1375) % 3600, 85, 60>>
            /\ \A p \in PathCells(i) : cells[p] = i

\* a success with four paths or more: the hue of id 4 has wrapped to 52.5
C9_Witness ==
    /\ Returned
    /\ Len(paths) >= 4
    /\ paths[4].color = <<525, 85, 60>>

\* C10: whenever generate() has returned true, grid.paths holds more than one
\* path, merges included.
C10_MoreThanOnePath == Returned => Len(paths) > 1

\* C11: a Generator constructed with only a Grid (no Random injected) runs
\* generate() on a 5x5 or 10x10 grid without faulting.
C11_RunsWithoutRandom == (~options.random /\ size \in TestSizes) => pc # "threw"

\* the ids of the live paths
PathIds == {paths[k].id : k \in 1 .. Len(paths)}

\* C12 as stated: at every phase boundary the path at list position i
\* (1-based here) carries id i, so the ids are 1..K in list order.
C12_IdsDenseInOrder ==
    AtPhaseBoundary => \A i \in 1 .. Len(paths) : paths[i].id = i

\* C12 as amended: at every phase boundary the ids of the live paths are
\* pairwise distinct positive integers; they are exactly 1..K (in some order)
\* until mergeCollinearPaths has run, and the path at list position i carries
\* id i once shufflePathIds has run.
C12_IdsUniqueThenDense ==
    AtPhaseBoundary =>
        /\ \A i, j \in 1 .. Len(paths) : i # j => paths[i].id # paths[j].id
        /\ \A i \in 1 .. Len(paths) : paths[i].id >= 1
        /\ (pc \notin {"shuffle", "validate"}) => PathIds = 1 .. Len(paths)
        /\ (pc = "validate") => \A i \in 1 .. Len(paths) : paths[i].id = i

\* the boundary after the first expansion, whose shuffles left a filler-free
\* list out of id order
C12_Witness ==
    /\ pc = "tighten1"
    /\ ~started
    /\ \E i \in 1 .. Len(paths) : paths[i].id # i

\* the point lists of the live paths
PathPoints == {paths[k].points : k \in 1 .. Len(paths)}

\* C16: random.shuffle(grid.paths) leaves a permutation of the former list:
\* the pass head of expandPathsRandom keeps the length and the set of path
\* records, and shufflePathIds keeps the length and the set of point lists
\* (it renumbers the records it has permuted).
C16_ShufflePermutes ==
    [][/\ (pc \in ExpandPhases /\ pos = 0 /\ iterations' = iterations + 1)
           => (Len(paths') = Len(paths) /\ Range(paths') = Range(paths))
       /\ (pc = "shuffle" /\ pc' = "validate")
           => (Len(paths') = Len(paths) /\ PathPoints' = PathPoints)]_vars

\* right after the shuffle of the first pass of the first expansion, with the
\* list no longer in the order fillGreedy built it
C16_Witness ==
    /\ pc = "expand1"
    /\ started
    /\ iterations = 1
    /\ pos = 1
    /\ ~changed
    /\ Len(paths) >= 2
    /\ \E i \in 1 .. Len(paths) : paths[i].id # i

\* C13: setCell with r or c out of range leaves every cell and the path list
\* as they were, setCell in range changes the addressed cell only, and isValid
\* and isEmpty answer false for every out-of-range coordinate.
C13_GridTotal ==
    [][/\ (call'.op = "setCell" /\ ~isValid(call'.r, call'.c))
           => (cells' = cells /\ paths' = paths)
       /\ (call'.op = "setCell" /\ isValid(call'.r, call'.c))
           => /\ cells' = [cells EXCEPT ![<<call'.r, call'.c>>] = call'.value]
              /\ paths' = paths
       /\ (call'.op \in {"isValid", "isEmpty"} /\ ~isValid(call'.r, call'.c))
           => (call'.result = FALSE /\ cells' = cells /\ paths' = paths)]_vars

\* an out-of-range setCell made on a grid that holds a stone, an id and a path
C13_Witness ==
    /\ call.op = "setCell"
    /\ ~isValid(call.r, call.c)
    /\ \E p \in DOMAIN cells : cells[p] = -1
    /\ \E p \in DOMAIN cells : cells[p] = 1
    /\ paths # <<>>

\* C14: after reset() every cell is 0 and the path list is empty, whatever
\* the grid held before (path ids, stone marks, paths).
C14_ResetClears ==
    [][call'.op = "reset"
       => /\ DOMAIN cells' = Coords
          /\ \A p \in Coords : cells'[p] = 0
          /\ paths' = <<>>]_vars

\* a reset() made on a grid that held stones, ids and a path
C14_Witness ==
    /\ call.op = "reset"
    /\ call.held.stones
    /\ call.held.ids
    /\ call.held.paths > 0
    /\ \A p \in Coords : cells[p] = 0
    /\ paths = <<>>

\* C15: two Random sources constructed from the same numeric seed, 0
\* included, return the same value from every next(), range() and shuffle().
C15_SameSeedSameSequence ==
    (seedArg.given /\ call.op \in {"next", "range", "shuffle"})
        => call.result[1] = call.result[2]

\* the one header auth accepts
ValidHeader == Header("Bearer", API_TOKEN)

\* C17: a request to either endpoint without the valid bearer token is
\* answered 401, and handling it constructs no Grid, Random or Generator and
\* takes no step of generate().
C17_UnauthorizedDoesNoWork ==
    [][request'.authorization # ValidHeader
       => /\ response'.status = 401
          /\ constructed' = 0
          /\ UNCHANGED genVars]_vars

\* a request with a wrong bearer token answered after a puzzle was returned
C17_Witness ==
    /\ request.endpoint = "validatePuzzle"
    /\ request.authorization = Header("Bearer", "guess")
    /\ response.status = 401
    /\ issued # NoPuzzle

\* C18: when /api/validatePuzzle answers a request carrying the seed and
\* size of the puzzle /api/getPuzzle returned in hard mode, the grid it
\* re-derived equals the grid that was generated.
C18_RederivesIssued ==
    (/\ request.endpoint = "validatePuzzle"
     /\ response.status = 200
     /\ issued.mode = "hard"
     /\ request.seed = issued.seed
     /\ request.size = issued.size)
        => (cells = issued.cells /\ paths = issued.paths)

\* the two dots of a generated path
Dots(path) == {startOf(path), endOf(path)}

\* C19: after any sequence of pointer-down, pointer-move, pointer-up, undo,
\* redo and reset events of one pointer the user paths are pairwise
\* cell-disjoint and no user path contains a stone or a dot of another path.
C19_UserPathsDisjoint ==
    /\ \A i, j \in DOMAIN userPaths :
           i # j => Range(userPaths[i]) \cap Range(userPaths[j]) = {}
    /\ \A i \in DOMAIN userPaths : \A p \in Range(userPaths[i]) :
           /\ cells[p] # -1
           /\ \A k \in 1 .. Len(paths) :
                  paths[k].id # i => p \notin Dots(paths[k])

\* a path being drawn next to a cell of another user path, with history
C19_Witness ==
    /\ isDrawing
    /\ undoStack # <<>>
    /\ activePathId \in DOMAIN userPaths
    /\ Len(userPaths[activePathId]) >= 2
    /\ \E id \in DOMAIN userPaths \ {activePathId} :
           \E p \in Range(userPaths[id]) : cellDist(p, lastCell) = 1

\* C20: whenever no drawing is in progress on a loaded puzzle, the title is
\* in its won form exactly when every generated path has a user path joining
\* its two dots.
C20_TitleTracksCompletion ==
    (~generating /\ ~isDrawing) => (titleWon <=> allConnected(userPaths))

\* the cells that hold a stone
Stones(cs) == {p \in DOMAIN cs : cs[p] = -1}

\* the endpoints of every path, in the order of the path list
EndpointPairs(ps) == [k \in 1 .. Len(ps) |-> <<First(ps[k]), Last(ps[k])>>]

\* C21: loading the level code that exportLevelCode wrote for a generated
\* grid whose empty cells became stones gives a grid of the same size, with
\* the same endpoint pairs in the same order and the same set of stones.
C21_LevelCodeRoundTrip ==
    [][(LoadLevelCode /\ ~isImported)
       => /\ size' = size
          /\ EndpointPairs(paths') = EndpointPairs(paths)
          /\ Stones(cells') = Stones(cells)]_vars

\* a generated grid with stones and several paths has been loaded from its code
C21_Witness ==
    /\ isImported
    /\ pc = "done"
    /\ Stones(cells) # {}
    /\ Len(paths) >= 2
    /\ \E k \in 1 .. Len(paths) : Len(paths[k].points) > 2

\* C22: fillGreedy calls addPair only while fewer than 50 calls in a row have
\* failed and fewer than 1000 calls have been made; a successful call sets
\* the failure count to 0 and a failed one raises it by one; the loop is left
\* only when one of the two limits is reached, and fillGreedy then returns
\* true exactly when the grid holds at least 2 paths.
C22_FillGreedyLoop ==
    [][/\ (pc = "fillGreedy" /\ attempts' = attempts + 1 /\ pc' = pc)
          => /\ failures < MaxFailures
             /\ attempts < MaxAttempts
             /\ failures' = IF Len(paths') > Len(paths) THEN 0
                            ELSE failures + 1
       /\ (pc = "fillGreedy" /\ pc' \notin {"fillGreedy", "threw"})
          => /\ failures >= MaxFailures \/ attempts >= MaxAttempts
             /\ pc' = "expand1" <=> Len(paths) >= 2
             /\ pc' # "expand1" => pc' = "generate"]_vars

\* fillGreedy has returned true after 50 failed calls in a row that followed
\* at least two successful ones
C22_Witness ==
    /\ pc = "expand1"
    /\ ~started
    /\ failures = MaxFailures
    /\ attempts >= MaxFailures + 2
    /\ Len(paths) >= 2

\* fillGreedy: the pass of the loop in which addPair commits a path
PairCommitted ==
    /\ pc = "fillGreedy"
    /\ pc' = "fillGreedy"
    /\ Len(paths') = Len(paths) + 1

\* b lies in the quadrant diagonally opposite a's, the grid being quartered
\* at floor(size / 2)
OppositeQuadrant(a, b) ==
    /\ (a[1] < size \div 2) # (b[1] < size \div 2)
    /\ (a[2] < size \div 2) # (b[2] < size \div 2)

\* a and b lie in different rows and in different columns
OffAxis(a, b) == a[1] # b[1] /\ a[2] # b[2]

\* C23: in hard mode the two endpoints of every pair that addPair commits lie
\* in different rows and in different columns.
C23_HardPairsOffAxis ==
    [][(PairCommitted /\ options.hardMode)
       => OffAxis(First(paths'[Len(paths')]), Last(paths'[Len(paths')]))]_vars

\* hard mode: a pair has been committed after the quadrant rule has ceased to
\* apply
C23_Witness ==
    /\ options.hardMode
    /\ pc = "fillGreedy"
    /\ Len(paths) > FirstPairsSpread

\* C24: in hard mode, when addPair commits one of the first 3 pairs of an
\* attempt, B lies in the quadrant diagonally opposite A's if some empty cell
\* of that quadrant differed from A in row and column when the pair was chosen;
\* if there was none, B is an empty cell that differs from A in row and column.
C24_FirstPairsSpread ==
    [][(PairCommitted /\ options.hardMode /\ Len(paths) < FirstPairsSpread)
       => LET A == First(paths'[Len(paths')])
              B == Last(paths'[Len(paths')])
          IN  /\ cells[A] = 0 /\ cells[B] = 0 /\ OffAxis(A, B)
              /\ (\E p \in DOMAIN cells :
                      cells[p] = 0 /\ OffAxis(A, p) /\ OppositeQuadrant(A, p))
                 => OppositeQuadrant(A, B)]_vars

\* hard mode: the third pair of an attempt has been committed with its
\* endpoints in diagonally opposite quadrants
C24_Witness ==
    /\ options.hardMode
    /\ pc = "fillGreedy"
    /\ Len(paths) = FirstPairsSpread
    /\ OppositeQuadrant(First(paths[FirstPairsSpread]),
                        Last(paths[FirstPairsSpread]))

\* the cells a walk from start may stand on after at most k steps through
\* empty cells
RECURSIVE Within(_, _, _)
Within(cs, start, k) ==
    IF k = 0 THEN {start}
    ELSE LET near == Within(cs, start, k - 1)
         IN  near \cup {p \in DOMAIN cs :
                           /\ cs[p] = 0
                           /\ \E q \in near : Manhattan(p, q) = 1}

\* the cells from which one step leads to end, end itself when start is end
Before(cs, start, end) ==
    IF start = end THEN {end}
    ELSE {q \in DOMAIN cs : Manhattan(q, end) = 1 /\ (q = start \/ cs[q] = 0)}

\* end can be reached from start by a walk of at most k steps whose
\* intermediate cells are empty
Reachable(cs, start, end, k) ==
    IF start = end THEN k >= 0
    ELSE k >= 1 /\ Before(cs, start, end) \cap Within(cs, start, k - 1) # {}

\* C26: findShortestPath(start, end) returns null exactly when no walk through
\* empty cells leads from start to end; otherwise it returns a walk from start
\* to end whose consecutive points are orthogonally adjacent, whose
\* intermediate cells are empty, and no walk of fewer steps exists.
C26_ShortestPath ==
    call.op = "findShortestPath" =>
        LET all == Cardinality(DOMAIN cells)
            route == call.result
        IN  /\ route = Null
               <=> ~Reachable(cells, call.start, call.end, all)
            /\ route # Null =>
                  /\ route[1] = call.start
                  /\ route[Len(route)] = call.end
                  /\ \A k \in 1 .. Len(route) - 1 :
                         Manhattan(route[k], route[k + 1]) = 1
                  /\ \A k \in 2 .. Len(route) - 1 : cells[route[k]] = 0
                  /\ ~Reachable(cells, call.start, call.end, Len(route) - 2)

\* a route that had to go round a stone has been returned
C26_Witness ==
    /\ call.op = "findShortestPath"
    /\ call.result # Null
    /\ Len(call.result) > Manhattan(call.start, call.end) + 1

\* the B candidates for A that addPair has before the distance rule, the path
\* list being empty
Unfiltered(cs, A) ==
    LET others == {p \in DOMAIN cs : cs[p] = 0 /\ p # A}
        offAxis == {p \in others : OffAxis(A, p)}
        opposite == {p \in offAxis : OppositeQuadrant(A, p)}
    IN  IF ~options.hardMode THEN others
        ELSE IF opposite # {} THEN opposite
        ELSE offAxis

\* those of them at Manhattan distance floor(2 * size / 3) or more from A
Far(cs, A) == {p \in Unfiltered(cs, A) : Manhattan(A, p) >= (2 * size) \div 3}

\* whichever A is drawn, no candidate is far enough, some candidate exists,
\* and every candidate has a route of 3 points or more from A
OnlyNearCandidates(cs) ==
    /\ \E A \in DOMAIN cs : cs[A] = 0
    /\ \A A \in DOMAIN cs :
           cs[A] = 0 =>
               /\ Far(cs, A) = {}
               /\ Unfiltered(cs, A) # {}
               /\ \A B \in Unfiltered(cs, A) :
                      /\ Manhattan(A, B) > 1
                      /\ Reachable(cs, A, B, Cardinality(DOMAIN cs))

C25_FarOrNothing ==
    [][(call' # call /\ call'.op = "addPair" /\ paths = <<>>)
       => /\ paths' # <<>>
             => Last(paths'[1]) \in Far(cells, First(paths'[1]))
          /\ (\A A \in DOMAIN cells : cells[A] = 0 => Far(cells, A) = {})
             => paths' = <<>> /\ cells' = cells]_vars

\* fillGreedy: a pass of the loop from which addPair has returned
PairAttempted ==
    /\ pc = "fillGreedy"
    /\ pc' = "fillGreedy"
    /\ attempts' = attempts + 1

\* C27: a call of addPair either appends one path of 3 points or more, labels
\* exactly the cells of that path and counts as a success, or counts as a
\* failure and leaves every cell and the path list as they were.
C27_CommitOrNothing ==
    [][PairAttempted
       => \/ /\ failures' = 0
             /\ Len(paths') = Len(paths) + 1
             /\ SubSeq(paths', 1, Len(paths)) = paths
             /\ Len(paths'[Len(paths')].points) >= 3
             /\ \A p \in DOMAIN cells :
                    cells'[p] = IF p \in Range(paths'[Len(paths')].points)
                                THEN paths'[Len(paths')].id
                                ELSE cells[p]
          \/ /\ failures' = failures + 1
             /\ cells' = cells
             /\ paths' = paths]_vars

\* addPair has failed on a grid that holds a path and two adjacent empty cells
C27_Witness ==
    /\ pc = "fillGreedy"
    /\ failures >= 1
    /\ Len(paths) >= 1
    /\ \E p \in DOMAIN cells, q \in DOMAIN cells :
           cells[p] = 0 /\ cells[q] = 0 /\ Manhattan(p, q) = 1

\* mergeCollinearPaths has not run in this attempt
BeforeMerge ==
    \/ pc \in {"fillGreedy", "expand1", "tighten1", "expand2", "fill1",
               "expand3", "tighten2", "expand4", "fill2"}
    \/ pc = "merge" /\ ~started

\* C28: at every point of an attempt before mergeCollinearPaths runs, every
\* path has 3 points or more and endpoints that are not orthogonally adjacent,
\* whichever mode the extensions ran in; so the grid that the merge receives
\* passes every check of validateGrid.
C28_SoundBeforeMerge ==
    /\ BeforeMerge =>
           \A k \in 1 .. Len(paths) :
               /\ Len(paths[k].points) >= 3
               /\ Manhattan(First(paths[k]), Last(paths[k])) >= 2
    /\ (pc = "merge" /\ ~started) => GridIsValid

\* an extension pass has moved an endpoint to within two steps of the other
\* endpoint of its path
C28_Witness ==
    /\ pc \in {"expand2", "expand3", "expand4"}
    /\ \E k \in 1 .. Len(paths) :
           /\ \/ paths[k].pointTypes[1] = EXTENSION
              \/ paths[k].pointTypes[Len(paths[k].pointTypes)] = EXTENSION
           /\ Manhattan(First(paths[k]), Last(paths[k])) = 2

\* expandPathsRandom: a call of expandEndpointRandom that extended the path
EndpointExtended ==
    /\ pc \in ExpandPhases
    /\ pos >= 1
    /\ cells' # cells

\* C29: in hard mode every extension leaves the two endpoints of the extended
\* path in different rows and in different columns, and at every point of
\* every attempt, the merge and the id shuffle included, each non-filler path
\* has its endpoints in different rows and in different columns.
C29_HardEndpointsOffAxis ==
    /\ [][(EndpointExtended /\ options.hardMode)
          => OffAxis(First(paths'[(pos + 1) \div 2]),
                     Last(paths'[(pos + 1) \div 2]))]_vars
    /\ [](options.hardMode =>
              \A k \in 1 .. Len(paths) :
                  ~paths[k].isFiller
                      => OffAxis(First(paths[k]), Last(paths[k])))

\* hard mode: generate() has returned true with a path grown by an extension
\* pass
C29_Witness ==
    /\ options.hardMode
    /\ Returned
    /\ \E k \in 1 .. Len(paths) :
           ~paths[k].isFiller /\ EXTENSION \in Range(paths[k].pointTypes)

\* C30: a call of expandEndpointRandom either changes neither the cells nor
\* the paths, or adds one point at the chosen end of the chosen path, on a
\* cell of the grid that was empty and is orthogonally adjacent to the old
\* endpoint, labels that cell with the path's id and adds one tag at the same
\* end, extension in an extension pass and core otherwise, leaving every other
\* cell, every other path and every other field of the path as they were.
C30_ExtensionFrame ==
    [][(pc \in ExpandPhases /\ pos >= 1 /\ pos' # pos)
       => LET k == (pos + 1) \div 2
              atStart == (pos % 2) = 1
              old == paths[k]
              tip == IF atStart THEN First(old) ELSE Last(old)
              tag == IF pc = "expand1" THEN CORE ELSE EXTENSION
          IN  \/ cells' = cells /\ paths' = paths
              \/ \E n \in DOMAIN cells :
                     /\ cells[n] = 0
                     /\ Manhattan(n, tip) = 1
                     /\ cells' = [cells EXCEPT ![n] = old.id]
                     /\ paths' = [paths EXCEPT ![k] =
                            [old EXCEPT
                               !.points =
                                   IF atStart THEN <<n>> \o old.points
                                   ELSE Append(old.points, n),
                               !.pointTypes =
                                   IF atStart THEN <<tag>> \o old.pointTypes
                                   ELSE Append(old.pointTypes, tag)]]]_vars

\* an extension pass has added a point at the start of a path, tagged as an
\* extension
C30_Witness ==
    /\ pc \in {"expand2", "expand3", "expand4"}
    /\ pos >= 1
    /\ changed
    /\ \E k \in 1 .. Len(paths) :
           /\ paths[k].pointTypes[1] = EXTENSION
           /\ Len(paths[k].points) > 3

\* two points of pts are orthogonally adjacent only if they are consecutive
Chordless(pts) ==
    \A i \in 1 .. Len(pts), j \in 1 .. Len(pts) :
        j > i + 1 => Manhattan(pts[i], pts[j]) # 1

\* C31: at every phase boundary before mergeCollinearPaths runs, two points of
\* one path are orthogonally adjacent only if they are consecutive in the
\* path's sequence.
C31_ChordlessBeforeMerge ==
    (AtPhaseBoundary /\ BeforeMerge) =>
        \A k \in 1 .. Len(paths) : Chordless(paths[k].points)

\* the merge is about to run on a grid holding a filler walk and a path of 5
\* points or more that an extension pass has grown
C31_Witness ==
    /\ pc = "merge"
    /\ ~started
    /\ \E k \in 1 .. Len(paths) : paths[k].isFiller
    /\ \E k \in 1 .. Len(paths) :
           /\ ~paths[k].isFiller
           /\ Len(paths[k].points) >= 5
           /\ EXTENSION \in Range(paths[k].pointTypes)

\* the empty cells next to an endpoint of path
EmptyBeside(path, atStart) ==
    {n \in DOMAIN cells :
        /\ cells[n] = 0
        /\ Manhattan(n, IF atStart THEN First(path) ELSE Last(path)) = 1}

\* some endpoint has an empty neighbour that passes the constraints of the
\* pass, extension mode or not
SomeEndpointCanGrow(isExtension) ==
    \E k \in 1 .. Len(paths), atStart \in BOOLEAN :
        \E n \in EmptyBeside(paths[k], atStart) :
            canExtendTo(cells, paths[k], atStart, isExtension, n)

\* C32: expandPathsRandom returns only after a round in which no call
\* extended an endpoint; when it returns, no endpoint of any path has an empty
\* neighbour that passes the constraints of that pass; and the number of
\* rounds never exceeds the number of cells plus one, so the cap of 1000
\* rounds is not what ends the loop.
C32_ExpandsToFixedPoint ==
    /\ [][(pc \in ExpandPhases /\ pc' # pc)
          => /\ ~changed
             /\ iterations < MaxIterations
             /\ ~SomeEndpointCanGrow(isExtensionPhase(pc))]_vars
    /\ [](pc \in ExpandPhases => iterations <= size * size + 1)

\* the first expansion has returned after several rounds, leaving an empty
\* cell next to an endpoint
C32_Witness ==
    /\ pc = "tighten1"
    /\ ~started
    /\ iterations = 0
    /\ \E k \in 1 .. Len(paths), atStart \in BOOLEAN :
           EmptyBeside(paths[k], atStart) # {}
    /\ \E k \in 1 .. Len(paths) : Len(paths[k].points) >= 5

\* C33: the pass of tightenPaths over one path keeps the path's first and last
\* point; it either replaces the route by a strictly shorter one whose point
\* types are all core, or leaves the path as it was; afterwards the cells of
\* the path's route carry its id, the cells it gave up are empty, and every
\* other cell and every other path is unchanged.
C33_TightenKeepsEndpoints ==
    [][(pc \in TightenPhases /\ pos >= 1)
       => LET old == paths[pos]
              new == paths'[pos]
          IN  /\ First(new) = First(old)
              /\ Last(new) = Last(old)
              /\ \/ new = old
                 \/ /\ Len(new.points) < Len(old.points)
                    /\ new.pointTypes = [i \in 1 .. Len(new.points) |-> CORE]
                    /\ new = [old EXCEPT !.points = new.points,
                                         !.pointTypes = new.pointTypes]
              /\ paths' = [paths EXCEPT ![pos] = new]
              /\ \A p \in DOMAIN cells :
                     cells'[p] = IF p \in Range(new.points) THEN old.id
                                 ELSE IF p \in Range(old.points) THEN 0
                                 ELSE cells[p]]_vars

\* tightenPaths has replaced the route of a path in this round
C33_Witness ==
    /\ pc \in TightenPhases
    /\ started
    /\ improved
    /\ pos >= 2

\* the cells with those of path k emptied
WithoutPath(k) ==
    [p \in DOMAIN cells |-> IF p \in Range(paths[k].points) THEN 0 ELSE cells[p]]

\* path k has a route between its endpoints, through cells that are empty or
\* its own, of fewer points than it has now
CanTighten(k) ==
    Reachable(WithoutPath(k), First(paths[k]), Last(paths[k]),
              Len(paths[k].points) - 2)

\* C34: tightenPaths terminates, and when it returns no path has a strictly
\* shorter route between its two endpoints through cells that are empty or
\* its own.
C34_TightenTerminatesAtFixedPoint ==
    /\ \A phase \in TightenPhases : (pc = phase) ~> (pc # phase)
    /\ [][(pc \in TightenPhases /\ pc' # pc)
          => \A k \in 1 .. Len(paths) : ~CanTighten(k)]_vars

\* the second tightening has returned on a grid with empty cells left and
\* a path of four cells or more
C34_Witness ==
    /\ pc = "expand4"
    /\ ~started
    /\ \E k \in 1 .. Len(paths) :
           /\ CORE \in Range(paths[k].pointTypes)
           /\ Len(paths[k].points) >= 4
    /\ \E p \in DOMAIN cells : cells[p] = 0

\* two cells that share a side
Adjacent(a, b) ==
    \/ a[1] = b[1] /\ (a[2] - b[2]) \in {-1, 1}
    \/ a[2] = b[2] /\ (a[1] - b[1]) \in {-1, 1}

\* three empty cells of cs in a straight or an L-shaped run; every 4-connected
\* group of three empty cells or more holds one
EmptyRun(cs) ==
    \E a, b, c \in DOMAIN cs :
        /\ a # c
        /\ cs[a] = 0 /\ cs[b] = 0 /\ cs[c] = 0
        /\ Adjacent(a, b) /\ Adjacent(b, c)

\* C35: when fillSmallVoids returns, and whenever generate() has returned
\* true, no three empty cells form a straight or L-shaped run, so every
\* 4-connected group of empty cells has two cells at most; the 2x2 L-shape
\* loop adds no path after the depth-first loop.
C35_NoEmptyRunAfterFill ==
    /\ [][(pc \in FillPhases /\ pc' # pc) => ~EmptyRun(cells')]_vars
    /\ [][(pc \in FillPhases /\ started) => paths' = paths]_vars
    /\ [](pc = "done" => ~EmptyRun(cells))

\* fillSmallVoids has returned with fillers added and a group of two empty
\* cells left
C35_Witness ==
    /\ pc \in {"expand3", "merge"}
    /\ ~started
    /\ \E k \in 1 .. Len(paths) : paths[k].isFiller
    /\ \E a, b \in DOMAIN cells :
           cells[a] = 0 /\ cells[b] = 0 /\ Adjacent(a, b)

\* the list position of the path at position i once position j has been
\* spliced out
AfterSplice(i, j) == IF j < i THEN i - 1 ELSE i

\* the step merges P = paths[i] with Q = paths[j]
MergedInto(i, j) ==
    LET P == paths[i]
        Q == paths[j]
        S == paths'[AfterSplice(i, j)]
    IN  /\ Len(paths') = Len(paths) - 1
        /\ S.id = P.id
        /\ S.points = P.points \o (IF Adjacent(Last(P), First(Q))
                                   THEN Q.points ELSE Reverse(Q.points))
        /\ S.isFiller
        /\ \A p \in Range(S.points) : cells'[p] = P.id
        /\ \A p \in DOMAIN cells \ Range(Q.points) : cells'[p] = cells[p]
        /\ \A m \in (1 .. Len(paths)) \ {i, j} :
               paths'[AfterSplice(m, j)] = paths[m]

\* C36: a merge of P with Q keeps P's id on the survivor, whose points are
\* P's followed by Q's (Q's reversed when the tails were joined); every cell
\* of the survivor carries P's id, Q is gone from the list and the survivor
\* is a filler. [[2,2],[2,3],[2,4]] and [[2,5],[2,6],[2,7]] become
\* [[2,2],[2,3],[2,4],[2,5],[2,6],[2,7]].
C36_MergeAppends ==
    /\ [][(pc = "merge" /\ paths' # paths)
          => \E i, j \in 1 .. Len(paths) : i # j /\ MergedInto(i, j)]_vars
    /\ [][(/\ pc = "merge"
           /\ paths' # paths
           /\ paths = pathsOf(<<Segment(2, 2, 0, 1, 3), Segment(2, 5, 0, 1, 3)>>))
          => /\ Len(paths') = 1
             /\ paths'[1].points = Segment(2, 2, 0, 1, 6)]_vars

\* the two runs of row 2 have become one filler of six cells with id 1
C36_Witness ==
    /\ Len(paths) = 1
    /\ paths[1].points = Segment(2, 2, 0, 1, 6)
    /\ paths[1].id = 1
    /\ paths[1].isFiller
    /\ \A c \in 2 .. 7 : cells[<<2, c>>] = 1

\* P = paths[i] ends beside the first or the last cell of Q = paths[j], and
\* P's last segment, the connecting step and Q's segment leaving that cell
\* point the same way
InLine(i, j) ==
    LET P  == paths[i].points
        Q  == paths[j].points
        d1 == getDir(P[Len(P) - 1], P[Len(P)])
    IN  \/ /\ Adjacent(P[Len(P)], Q[1])
           /\ getDir(P[Len(P)], Q[1]) = d1
           /\ getDir(Q[1], Q[2]) = d1
        \/ /\ Adjacent(P[Len(P)], Q[Len(Q)])
           /\ getDir(P[Len(P)], Q[Len(Q)]) = d1
           /\ getDir(Q[Len(Q)], Q[Len(Q) - 1]) = d1

\* C37: when mergeCollinearPaths returns, no ordered pair of distinct paths
\* is left in which one path's tail is beside the other's head or tail with
\* the approaching segment, the connecting step and the departing segment
\* all in the same direction.
C37_NoCollinearPairLeft ==
    [][(pc = "merge" /\ pc' # pc)
       => \A i, j \in 1 .. Len(paths) : i # j => ~InLine(i, j)]_vars

\* every pass of the while loop that merges shortens the path list, so the
\* loop ends after fewer passes than there were paths
C37_MergeShrinks ==
    [][(pc = "merge" /\ pc' = pc /\ paths' # paths)
       => Len(paths') < Len(paths)]_vars

\* C38: throughout an attempt no two paths of the list carry the same id,
\* and a path that addPair or addTargetedPath appends takes as its id the
\* count of the paths before it plus one, which none of them carries, whatever
\* order the list has been shuffled into.
C38_IdsNeverCollide ==
    /\ [](\A i, j \in 1 .. Len(paths) : i # j => paths[i].id # paths[j].id)
    /\ [][Len(paths') > Len(paths)
          => \A m \in Len(paths) + 1 .. Len(paths') :
                 /\ paths'[m].id = m
                 /\ \A k \in 1 .. m - 1 : paths'[k].id # m]_vars

\* fillSmallVoids has just appended a filler to a list that an expansion had
\* shuffled out of id order
C38_Witness ==
    /\ pc \in {"expand3", "merge"}
    /\ ~started
    /\ Len(paths) >= 3
    /\ paths[Len(paths)].isFiller
    /\ paths[Len(paths)].id = Len(paths)
    /\ \E k \in 1 .. Len(paths) - 1 : paths[k].id # k

\* C39: at every phase boundary every path has exactly as many entries in
\* pointTypes as in points; extension, tightening and merging keep the two
\* lists in step.
C39_TypesMatchPoints ==
    \A k \in 1 .. Len(paths) :
        Len(paths[k].pointTypes) = Len(paths[k].points)

\* mergeCollinearPaths has returned, after both tightenings, with a filler
\* of four cells or more that holds both core and extension cells
C39_Witness ==
    /\ pc = "shuffle"
    /\ \E k \in 1 .. Len(paths) :
           /\ paths[k].isFiller
           /\ Len(paths[k].points) >= 4
           /\ CORE \in Range(paths[k].pointTypes)
           /\ EXTENSION \in Range(paths[k].pointTypes)

\* the stored user path of id is a connection from one dot of its path to
\* the other
Connects(id) ==
    /\ hasPath(id)
    /\ complete(pathById(id), userPaths[id])

\* C40: whenever isDrawing is false, every path stored in userPaths is a
\* complete connection from one dot to the other; an unfinished drag does
\* not stay stored, whatever the order of mouse, single-touch and
\* multi-touch events.
C40_OnlyCompletePathsStored ==
    (~generating /\ ~isDrawing) => \A id \in DOMAIN userPaths : Connects(id)

====
